---- MODULE Spec2Model ----
(***************************************************************************)
(* The extraction pipeline of docx-parser: ParseDocumentUseCaseImpl.execute *)
(* delegating to DocxRepository.parse, an async generator that the consumer *)
(* pulls one element at a time.  One behaviour of the model is one call of  *)
(* execute(source, options) and its iteration by a consumer.                *)
(*                                                                         *)
(* The container (the bytes of the source) is an input.  Its parts are      *)
(* fixed by the bytes; the model determines the content of a part at the    *)
(* moment the code first reads it (every part is read by one stage only).   *)
(***************************************************************************)
EXTENDS Integers, Sequences, FiniteSets, TLC

(***************************************************************************)
(* Bounds of the model                                                     *)
(***************************************************************************)
\* total number of blocks (paragraphs, tables, header/footer parts,
\* footnotes, media files) a container holds
MaxBlocks == 2
\* the most chunks a source stream delivers
MaxChunks == 2

(***************************************************************************)
(* Program constants                                                       *)
(***************************************************************************)
DefaultMaxImageSize == 10485760
DefaultChunkSize == 65536
ContentOrderStart == 1
ImageOrderStart == 1000
HeaderOrderStart == 2000
FooterOrderStart == 3000
FootnoteOrderStart == 4000

(***************************************************************************)
(* Text: a string is a sequence of one-character strings                   *)
(***************************************************************************)
Blank == << " " >>
Foo == << "f", "o", "o" >>
Texts == { Blank, Foo }

IsSpace(c) == c \in { " ", "\t", "\n" }

\* String.prototype.replace(/\s+/g, ' ')
RECURSIVE CollapseWhitespace(_)
CollapseWhitespace(s) ==
  IF s = << >> THEN << >>
  ELSE IF IsSpace(Head(s))
       THEN IF Len(s) > 1 /\ IsSpace(s[2])
            THEN CollapseWhitespace(Tail(s))
            ELSE << " " >> \o CollapseWhitespace(Tail(s))
       ELSE << Head(s) >> \o CollapseWhitespace(Tail(s))

RECURSIVE TrimStart(_)
TrimStart(s) ==
  IF s # << >> /\ IsSpace(Head(s)) THEN TrimStart(Tail(s)) ELSE s

RECURSIVE TrimEnd(_)
TrimEnd(s) ==
  IF s # << >> /\ IsSpace(s[Len(s)]) THEN TrimEnd(SubSeq(s, 1, Len(s) - 1)) ELSE s

\* String.prototype.trim()
Trim(s) == TrimEnd(TrimStart(s))

\* XmlAdapter.extractTextFromXml on the markup of a block whose runs hold
\* the text s: every tag becomes a space, whitespace runs collapse, ends trim
extractTextFromXml(s) == Trim(CollapseWhitespace(<< " " >> \o s \o << " " >>))

ToLowerCase(c) ==
  CASE c = "H" -> "h" [] c = "T" -> "t" [] c = "S" -> "s"
    [] c = "P" -> "p" [] c = "N" -> "n" [] c = "G" -> "g"
    [] c = "J" -> "j" [] c = "E" -> "e" [] c = "B" -> "b" [] c = "M" -> "m"
    [] OTHER -> c

LowerCase(s) == [ i \in 1..Len(s) |-> ToLowerCase(s[i]) ]

\* t occurs in s starting at position i
OccursAt(s, t, i) ==
  /\ i >= 1
  /\ i + Len(t) - 1 <= Len(s)
  /\ SubSeq(s, i, i + Len(t) - 1) = t

Contains(s, t) == \E i \in 1..(Len(s) + 1) : OccursAt(s, t, i)

SeqsUpTo(S, n) == UNION { [ 1..k -> S ] : k \in 0..n }

(***************************************************************************)
(* XmlAdapter: the markup analyzer                                         *)
(***************************************************************************)
Digits == { "0", "1", "2", "3", "4", "5", "6", "7", "8", "9" }

DigitValue(c) ==
  CASE c = "0" -> 0 [] c = "1" -> 1 [] c = "2" -> 2 [] c = "3" -> 3
    [] c = "4" -> 4 [] c = "5" -> 5 [] c = "6" -> 6 [] c = "7" -> 7
    [] c = "8" -> 8 [] OTHER -> 9

\* the digits (\d+, greedy) of s that start at position i
RECURSIVE DigitRun(_, _)
DigitRun(s, i) ==
  IF i <= Len(s) /\ s[i] \in Digits
  THEN << s[i] >> \o DigitRun(s, i + 1)
  ELSE << >>

\* parseInt of a non-empty run of decimal digits
RECURSIVE ParseInt(_)
ParseInt(ds) ==
  IF ds = << >> THEN 0
  ELSE 10 * ParseInt(SubSeq(ds, 1, Len(ds) - 1)) + DigitValue(ds[Len(ds)])

Heading == << "h", "e", "a", "d", "i", "n", "g" >>
Title == << "t", "i", "t", "l", "e" >>
Subtitle == << "s", "u", "b" >> \o Title

\* the alternatives of /heading(\d+)|h(\d+)/ tried at position i
HeadingDigitsAt(s, i) == OccursAt(s, Heading, i) /\ DigitRun(s, i + 7) # << >>
HDigitsAt(s, i) == OccursAt(s, << "h" >>, i) /\ DigitRun(s, i + 1) # << >>

\* faulty variant of ParsedLevel: the digits of the style name are ignored
ParsedLevelIgnored(style) == 1

\* style.match(/heading(\d+)|h(\d+)/): leftmost match, first alternative
\* first; parseInt(levelMatch[1] || levelMatch[2] || '1'), 1 without match
ParsedLevel(style) ==
  LET at == { i \in 1..Len(style) : HeadingDigitsAt(style, i) \/ HDigitsAt(style, i) }
  IN IF at = {} THEN 1
     ELSE LET i == CHOOSE j \in at : \A k \in at : j <= k
          IN IF HeadingDigitsAt(style, i)
             THEN ParseInt(DigitRun(style, i + 7))
             ELSE ParseInt(DigitRun(style, i + 1))

NoStyle == << >>

\* XmlAdapter.analyzeStyleForHeader, on the w:val of the paragraph's
\* w:pStyle (NoStyle: the paragraph has none); level counts only if hasLevel
analyzeStyleForHeader(style) ==
  IF Contains(LowerCase(style), Heading)
  THEN [ isHeader |-> TRUE, hasLevel |-> TRUE, level |-> ParsedLevel(LowerCase(style)) ]
  ELSE IF Contains(LowerCase(style), Title)
  THEN [ isHeader |-> TRUE, hasLevel |-> TRUE, level |-> 1 ]
  ELSE IF Contains(LowerCase(style), Subtitle)
  THEN [ isHeader |-> TRUE, hasLevel |-> TRUE, level |-> 2 ]
  ELSE [ isHeader |-> FALSE, hasLevel |-> FALSE, level |-> 0 ]

\* faulty variant of extractFormattingInfo: any w:strike markup counts
extractFormattingInfoAnyStrike(p) == [ bold |-> p.bold, strike |-> (p.strike # "none") ]

\* XmlAdapter.extractFormattingInfo: /<w:b\b[^>]*\/?>/ on the paragraph's
\* markup, and the strike test /<w:strike\s+w:val=["']1["'][^>]*\/?>/, which
\* <w:strike/> ("bare") and w:val="0" ("val=0") do not pass
extractFormattingInfo(p) == [ bold |-> p.bold, strike |-> (p.strike = "val=1") ]

\* one <w:p> block analyzed (xml-adapter.ts 130-159)
AnalyzeParagraph(p) ==
  [ text |-> Trim(extractTextFromXml(p.text)),
    type |-> IF analyzeStyleForHeader(p.style).isHeader THEN "header" ELSE "paragraph",
    hasLevel |-> analyzeStyleForHeader(p.style).hasLevel,
    level |-> analyzeStyleForHeader(p.style).level,
    formatting |-> extractFormattingInfo(p) ]

RECURSIVE Flatten(_)
Flatten(ss) == IF ss = << >> THEN << >> ELSE Head(ss) \o Flatten(Tail(ss))

\* the <w:p> blocks of a table, in document order
TableParagraphs(rows) ==
  Flatten([ r \in 1..Len(rows) |-> Flatten(rows[r]) ])

\* faulty variant of ParagraphMatches: the scan stays out of the tables
ParagraphMatchesTopLevel(blocks) ==
  Flatten([ b \in 1..Len(blocks) |->
              IF blocks[b].kind = "p" THEN << blocks[b].par >> ELSE << >> ])

\* every <w:p>...</w:p> match of the content part, in document order:
\* /<w:p[^>]*>(.*?)<\/w:p>/gs does not look at nesting
ParagraphMatches(blocks) ==
  Flatten([ b \in 1..Len(blocks) |->
              IF blocks[b].kind = "p" THEN << blocks[b].par >>
              ELSE TableParagraphs(blocks[b].rows) ])

RECURSIVE SelectNonEmpty(_)
SelectNonEmpty(es) ==
  IF es = << >> THEN << >>
  ELSE IF Head(es).text # << >>
       THEN << Head(es) >> \o SelectNonEmpty(Tail(es))
       ELSE SelectNonEmpty(Tail(es))

\* XmlAdapter.extractParagraphsWithFormattingFromXml
extractParagraphsWithFormattingFromXml(blocks) ==
  LET ps == ParagraphMatches(blocks)
  IN SelectNonEmpty([ i \in 1..Len(ps) |-> AnalyzeParagraph(ps[i]) ])

\* the text of a cell: extractTextFromXml over the markup of its paragraphs
CellText(cell) ==
  extractTextFromXml(Flatten([ i \in 1..Len(cell) |-> cell[i].text \o << " " >> ]))

RECURSIVE KeepNonEmptySeqs(_)
KeepNonEmptySeqs(ss) ==
  IF ss = << >> THEN << >>
  ELSE IF Head(ss) # << >>
       THEN << Head(ss) >> \o KeepNonEmptySeqs(Tail(ss))
       ELSE KeepNonEmptySeqs(Tail(ss))

\* the cells of one row: a cell without markup (cellXml = '') is skipped
RowCells(row) ==
  LET cells == KeepNonEmptySeqs(row)
  IN [ c \in 1..Len(cells) |-> CellText(cells[c]) ]

\* one table: rows without cells are dropped
TableRows(rows) == KeepNonEmptySeqs([ r \in 1..Len(rows) |-> RowCells(rows[r]) ])

\* XmlAdapter.extractTablesFromXml: tables without rows are dropped
extractTablesFromXml(blocks) ==
  LET ts == SelectSeq(blocks, LAMBDA b : b.kind = "tbl")
  IN KeepNonEmptySeqs([ t \in 1..Len(ts) |-> TableRows(ts[t].rows) ])

\* XmlAdapter.extractHeaderFromXml / extractFooterFromXml: null (here
\* found = FALSE) when the part has neither text nor a PAGE field
extractHeaderFromXml(part) ==
  [ found |-> (Trim(extractTextFromXml(part.text)) # << >> \/ part.hasPageNumber),
    text |-> Trim(extractTextFromXml(part.text)),
    hasPageNumber |-> part.hasPageNumber ]

extractFooterFromXml(part) == extractHeaderFromXml(part)

\* faulty variant of extractFootnotesFromXml: the reserved id "0" is skipped
extractFootnotesFromXmlSkipZero(notes) ==
  LET kept == SelectSeq(notes, LAMBDA n :
                 /\ n.id # ""
                 /\ n.id # "0"
                 /\ Trim(extractTextFromXml(n.text)) # << >>)
  IN [ i \in 1..Len(kept) |->
         [ id |-> kept[i].id, text |-> Trim(extractTextFromXml(kept[i].text)) ] ]

\* XmlAdapter.extractFootnotesFromXml: both branches (id # "0", id = "0")
\* keep a block with an id and non-empty text
extractFootnotesFromXml(notes) ==
  LET kept == SelectSeq(notes, LAMBDA n :
                 /\ n.id # ""
                 /\ Trim(extractTextFromXml(n.text)) # << >>)
  IN [ i \in 1..Len(kept) |->
         [ id |-> kept[i].id, text |-> Trim(extractTextFromXml(kept[i].text)) ] ]

\* DocxRepository.getImageFormat: by the lower-cased extension
getImageFormat(ext) ==
  LET e == LowerCase(ext)
  IN CASE e = << "p", "n", "g" >> -> "png"
       [] e = << "j", "p", "g" >> -> "jpg"
       [] e = << "j", "p", "e", "g" >> -> "jpg"
       [] e = << "g", "i", "f" >> -> "gif"
       [] e = << "s", "v", "g" >> -> "svg"
       [] e = << "w", "m", "f" >> -> "wmf"
       [] e = << "e", "m", "f" >> -> "emf"
       [] OTHER -> "null"

(***************************************************************************)
(* Inputs: the call's arguments and the parts of the container             *)
(***************************************************************************)
Unset == "unset"
Flags == { Unset, "true", "false" }

\* a flag of ParseOptions resolved against its default: options.x ?? dflt
Resolve(flag, dflt) == IF flag = Unset THEN dflt ELSE flag = "true"

\* the maxImageSize values a caller passes (0: left unset)
SmallImageLimit == 2
ImageLimits == { 0, SmallImageLimit }

\* ParseOptions as passed: omitted altogether, or every content filter given
NoOptions ==
  [ includeMetadata |-> Unset, includeImages |-> Unset, includeTables |-> Unset,
    includeHeaders |-> Unset, includeFooters |-> Unset,
    normalizeWhitespace |-> Unset, maxImageSize |-> 0,
    imageFormat |-> Unset, preserveFormatting |-> Unset,
    chunkSize |-> 0, concurrent |-> Unset ]

OptionSets ==
  { NoOptions } \cup
  [ includeMetadata : { "true", "false" }, includeImages : { "true", "false" },
    includeTables : { "true", "false" }, includeHeaders : { "true", "false" },
    includeFooters : { "true", "false" }, normalizeWhitespace : { Unset },
    maxImageSize : { SmallImageLimit },
    imageFormat : { Unset }, preserveFormatting : { Unset },
    chunkSize : { 0 }, concurrent : { Unset } ]

\* faulty variant of ResolveOptions: includeMetadata defaults to false
ResolveOptionsMetadataOff(o) ==
  [ includeMetadata |-> Resolve(o.includeMetadata, FALSE),
    includeImages |-> Resolve(o.includeImages, TRUE),
    includeTables |-> Resolve(o.includeTables, TRUE),
    includeHeaders |-> Resolve(o.includeHeaders, FALSE),
    includeFooters |-> Resolve(o.includeFooters, FALSE),
    normalizeWhitespace |-> Resolve(o.normalizeWhitespace, TRUE),
    maxImageSize |-> IF o.maxImageSize = 0 THEN DefaultMaxImageSize ELSE o.maxImageSize,
    imageFormat |-> IF o.imageFormat = Unset THEN "buffer" ELSE o.imageFormat,
    preserveFormatting |-> Resolve(o.preserveFormatting, TRUE),
    chunkSize |-> IF o.chunkSize = 0 THEN DefaultChunkSize ELSE o.chunkSize,
    concurrent |-> Resolve(o.concurrent, FALSE) ]

\* DocxRepository.parse, "Set default options"
ResolveOptions(o) ==
  [ includeMetadata |-> Resolve(o.includeMetadata, TRUE),
    includeImages |-> Resolve(o.includeImages, TRUE),
    includeTables |-> Resolve(o.includeTables, TRUE),
    includeHeaders |-> Resolve(o.includeHeaders, FALSE),
    includeFooters |-> Resolve(o.includeFooters, FALSE),
    normalizeWhitespace |-> Resolve(o.normalizeWhitespace, TRUE),
    maxImageSize |-> IF o.maxImageSize = 0 THEN DefaultMaxImageSize ELSE o.maxImageSize,
    imageFormat |-> IF o.imageFormat = Unset THEN "buffer" ELSE o.imageFormat,
    preserveFormatting |-> Resolve(o.preserveFormatting, TRUE),
    chunkSize |-> IF o.chunkSize = 0 THEN DefaultChunkSize ELSE o.chunkSize,
    concurrent |-> Resolve(o.concurrent, FALSE) ]

Undefined == "undefined"

\* docProps/core.xml: the text of its dc:/dcterms: elements ("" when the
\* element is missing or empty)
CoreXmls ==
  { [ title |-> "Report", creator |-> "Ann", subject |-> "", created |-> "2024-01-01", modified |-> "" ],
    [ title |-> "", creator |-> "", subject |-> "", created |-> "", modified |-> "" ] }
NoCoreXml == [ title |-> "", creator |-> "", subject |-> "", created |-> "", modified |-> "" ]

\* <w:p> blocks: the w:val of w:pStyle, the w:strike markup, the run text
Heading2Style == << "H", "e", "a", "d", "i", "n", "g", "2" >>
Paragraph(style, strike, text) ==
  [ style |-> style, strike |-> strike, text |-> text, bold |-> FALSE ]
BoldParagraph(style, strike, text) ==
  [ Paragraph(style, strike, text) EXCEPT !.bold = TRUE ]
NoParagraph == Paragraph(NoStyle, "none", << >>)

BodyParagraphs ==
  { Paragraph(NoStyle, "none", Foo), Paragraph(NoStyle, "none", Blank),
    Paragraph(Heading2Style, "none", Foo), Paragraph(NoStyle, "val=1", Foo) }

\* <w:tbl> blocks: rows of cells, a cell being the <w:p> blocks it holds
BodyTables ==
  { << << << Paragraph(NoStyle, "none", Foo) >> >> >>,
    << << << >> >> >> }

\* malformed: the analyzer of this kind of block throws on it
BodyBlocks ==
  { [ kind |-> "p", par |-> p, rows |-> << >>, malformed |-> FALSE ] : p \in BodyParagraphs } \cup
  { [ kind |-> "tbl", par |-> NoParagraph, rows |-> t, malformed |-> FALSE ] : t \in BodyTables } \cup
  { [ kind |-> k, par |-> NoParagraph, rows |-> << >>, malformed |-> TRUE ] : k \in { "p", "tbl" } }

Malformed(blocks, kind) == \E i \in 1..Len(blocks) : blocks[i].kind = kind /\ blocks[i].malformed

\* word/header*.xml and word/footer*.xml; malformed: the analyzer throws
PageParts ==
  { [ text |-> Foo, hasPageNumber |-> FALSE, malformed |-> FALSE ],
    [ text |-> Blank, hasPageNumber |-> FALSE, malformed |-> FALSE ],
    [ text |-> Blank, hasPageNumber |-> FALSE, malformed |-> TRUE ] }

\* <w:footnote w:id="..."> blocks
FootnoteBlocks ==
  { [ id |-> "0", text |-> Foo, malformed |-> FALSE ],
    [ id |-> "2", text |-> Foo, malformed |-> FALSE ],
    [ id |-> "2", text |-> Blank, malformed |-> FALSE ],
    [ id |-> "2", text |-> Blank, malformed |-> TRUE ] }

\* word/media/*: extension and byte length
Png == << "P", "N", "G" >>
Bmp == << "b", "m", "p" >>
MediaParts ==
  { [ ext |-> Png, length |-> SmallImageLimit ],
    [ ext |-> Png, length |-> SmallImageLimit + 1 ],
    [ ext |-> Bmp, length |-> SmallImageLimit ] }

\* a part of the container: unread (not determined yet), absent, corrupt
\* (reading the entry throws) or present
Part(state, data) == [ state |-> state, data |-> data ]

UnreadZip ==
  [ readable |-> TRUE,
    core |-> Part("unread", NoCoreXml),
    document |-> Part("unread", << >>),
    headers |-> Part("unread", << >>),
    footers |-> Part("unread", << >>),
    footnotes |-> Part("unread", << >>),
    media |-> Part("unread", << >>) ]

BodyCost(blocks) ==
  Len(ParagraphMatches(blocks)) + Len(SelectSeq(blocks, LAMBDA b : b.kind = "tbl"))

BlockCount(z) ==
  BodyCost(z.document.data) + Len(z.headers.data) + Len(z.footers.data)
    + Len(z.footnotes.data) + Len(z.media.data)

(***************************************************************************)
(* State                                                                   *)
(***************************************************************************)
VARIABLES
  source,        \* execute's first argument: "null", "buffer" or "stream";
                 \* parse's const buffer once the bytes are materialized
  options,       \* execute's second argument, as passed
  repository,    \* the use case's repository: "DocxRepository" or a "stub"
  zip,           \* the container the source's bytes hold
  pc,            \* where the generator stands
  pending,       \* the consumer awaits the result of a next() call
  out,           \* the elements handed to the consumer so far
  raised,        \* the errors raised to the consumer so far
  polled,        \* next() was called after the sequence ended
  elementId,     \* parse: let elementId
  order,         \* the running stage's let order
  elements,      \* extractContent: the analyzed paragraphs left to emit
  tables,        \* extractTables: the tables left to emit
  headerFiles,   \* extractHeaders: the header parts left to look at
  footerFiles,   \* extractFooters: the footer parts left to look at
  footnotes,     \* extractFootnotes: the footnotes left to emit
  mediaFiles,    \* extractImages: the media files left to look at
  warnings,      \* console.warn: the stages that logged a failure
  chunks,        \* streamToBuffer: the number of chunks read so far
  other,         \* another run of parse over the same buffer and options:
                 \* its own elementId, what it yielded, where it stands
  textRun,       \* extractText: its textParts, how many elements its loop
                 \* has taken, and how the call ended
  metadataRun,   \* extractMetadata: how many elements its loop has taken,
                 \* and how the call ended
  conversion,    \* StreamAdapter: a buffer on its way through a stream and
                 \* back through toBuffer
  validation     \* ValidateDocumentUseCaseImpl.validate: its argument and
                 \* what it returned

locals == << order, elements, tables, headerFiles, footerFiles, footnotes, mediaFiles >>
inputs == << source, options, repository, chunks, other, textRun, metadataRun, conversion,
            validation >>
execution == << source, options, repository, zip, pc, pending, out, raised, polled,
                elementId, order, elements, tables, headerFiles, footerFiles,
                footnotes, mediaFiles, warnings, chunks >>
thisRun == << execution, textRun >>
vars == << execution, other, textRun, metadataRun, conversion, validation >>

opts == ResolveOptions(options)

Ended == pc \in { "done", "failed", "closed" }

NotStarted == [ elementId |-> 0, out |-> << >>, pc |-> "created" ]

NoText == [ textParts |-> << >>, taken |-> 0, state |-> "running", value |-> << >> ]

\* validate was not called
NoValidation ==
  [ kind |-> "none", length |-> 0, head |-> << >>, state |-> "idle",
    errors |-> << >>, isValid |-> FALSE ]

\* no stream is being converted
NoConversion ==
  [ route |-> "none", bytes |-> << >>, position |-> 0, queue |-> << >>,
    closed |-> FALSE, chunks |-> << >>, state |-> "idle", result |-> << >> ]

\* extractMetadata was not called: the caller iterates execute itself
NoMetadataRun == [ taken |-> 0, state |-> "idle", value |-> << >> ]

(***************************************************************************)
(* Elements                                                                *)
(***************************************************************************)
NoMetadata ==
  [ title |-> Undefined, author |-> Undefined, subject |-> Undefined,
    created |-> Undefined, modified |-> Undefined ]

\* faulty variant of getNextId: the counter is not advanced
getNextIdStuck(n) == n

\* getNextId: `element_${++elementId}`, the counter after the increment
getNextId(n) == n + 1

ElementIdOf(n) == [ prefix |-> "element_", number |-> n ]

\* the fields every model element carries; stage names the extractor that
\* yielded it (not a field of the program's element)
Element(type, stage, n, ord) ==
  [ type |-> type, stage |-> stage, id |-> ElementIdOf(n), order |-> ord,
    content |-> << >>, metadata |-> NoMetadata, level |-> 0,
    checkbox |-> FALSE, isFootnote |-> FALSE, footnoteId |-> "",
    hasPageNumber |-> FALSE, rows |-> << >>, length |-> 0, format |-> "",
    filename |-> [ name |-> 0, ext |-> << >> ], error |-> Undefined ]

\* value || undefined
OrUndefined(v) == IF v = "" THEN Undefined ELSE v

\* extractMetadata, the part was read (index.ts 124-141)
CoreMetadata(xml) ==
  [ title |-> OrUndefined(xml.title), author |-> OrUndefined(xml.creator),
    subject |-> OrUndefined(xml.subject), created |-> OrUndefined(xml.created),
    modified |-> OrUndefined(xml.modified) ]

\* extractMetadata, the part is missing (index.ts 143-152)
FallbackMetadata ==
  [ NoMetadata EXCEPT !.title = "Unknown Document", !.author = "Unknown" ]

\* faulty variant of MetadataContent: a missing part gives the empty content too
MetadataContentEmptyFallback(part) ==
  CASE part.state = "present" -> CoreMetadata(part.data)
    [] OTHER -> NoMetadata

\* extractMetadata: the content of the element for what the read gave
MetadataContent(part) ==
  CASE part.state = "present" -> CoreMetadata(part.data)
    [] part.state = "absent" -> FallbackMetadata
    [] OTHER -> NoMetadata

\* extractContent: options.normalizeWhitespace ? text.replace(/\s+/g,' ').trim() : text
ContentText(text, o) ==
  IF o.normalizeWhitespace THEN Trim(CollapseWhitespace(text)) ELSE text

\* faulty variant of ContentElement: the formatting is read only when
\* preserveFormatting is on
ContentElementPreserving(e, n, ord, o) ==
  IF e.type = "header"
  THEN [ Element("header", "content", n, ord) EXCEPT
           !.content = ContentText(e.text, o),
           !.level = IF e.hasLevel /\ e.level # 0 THEN e.level ELSE 1 ]
  ELSE [ Element("paragraph", "content", n, ord) EXCEPT
           !.content = ContentText(e.text, o),
           !.checkbox = o.preserveFormatting /\ e.formatting.strike ]

\* extractContent: the element of one analyzed paragraph (index.ts 188-222)
ContentElement(e, n, ord, o) ==
  IF e.type = "header"
  THEN [ Element("header", "content", n, ord) EXCEPT
           !.content = ContentText(e.text, o),
           !.level = IF e.hasLevel /\ e.level # 0 THEN e.level ELSE 1 ]
  ELSE [ Element("paragraph", "content", n, ord) EXCEPT
           !.content = ContentText(e.text, o),
           !.checkbox = e.formatting.strike ]

\* extractTables: the element of one table (index.ts 247-261)
TableElement(rows, n, ord, o) ==
  [ Element("table", "tables", n, ord) EXCEPT
      !.rows = [ r \in 1..Len(rows) |->
                   [ c \in 1..Len(rows[r]) |-> ContentText(rows[r][c], o) ] ] ]

\* extractHeaders / extractFooters: the element of one part
HeaderElement(info, n, ord) ==
  [ Element("header", "headers", n, ord) EXCEPT
      !.content = info.text, !.level = 1, !.hasPageNumber = info.hasPageNumber ]

FooterElement(info, n, ord) ==
  [ Element("footer", "footers", n, ord) EXCEPT
      !.content = info.text, !.hasPageNumber = info.hasPageNumber ]

\* extractFootnotes: the element of one footnote
FootnoteElement(note, n, ord) ==
  [ Element("paragraph", "footnotes", n, ord) EXCEPT
      !.content = note.text, !.footnoteId = note.id, !.isFootnote = TRUE ]

\* extractImages: the element of one media file
ImageElement(file, n, ord) ==
  [ Element("image", "images", n, ord) EXCEPT
      !.length = file.length, !.format = getImageFormat(file.ext),
      !.filename = [ name |-> file.name, ext |-> file.ext ] ]

\* faulty variant of TooLarge: an image exactly at the limit is skipped
TooLargeInclusive(file, o) == file.length >= o.maxImageSize

\* extractImages: if (imageBuffer.length > options.maxImageSize) continue
TooLarge(file, o) == file.length > o.maxImageSize

(***************************************************************************)
(* Errors                                                                  *)
(***************************************************************************)
DocxParseError(message) == [ class |-> "DocxParseError", message |-> message ]
GenericError(message) == [ class |-> "Error", message |-> message ]

\* extractContent's catch (index.ts 229-233)
ContentCatch(err) == DocxParseError(<< "Failed to extract content" >> \o err.message)

\* parse's catch (index.ts 85-89)
ParseCatch(err) == DocxParseError(<< "Failed to parse DOCX document" >> \o err.message)

\* faulty variant of ExecuteCatch: every error is wrapped
ExecuteCatchAlwaysWrap(err) ==
  DocxParseError(<< "Failed to parse document" >> \o err.message)

\* execute's catch (part_001 26-33)
ExecuteCatch(err) ==
  IF err.class = "DocxParseError" THEN err
  ELSE DocxParseError(<< "Failed to parse document" >> \o err.message)

(***************************************************************************)
(* The fixed order of the stages (index.ts 60-84)                          *)
(***************************************************************************)
\* faulty variant of StageAfter: the images stage runs right after the content
StageAfterImagesFirst(stage) ==
  CASE stage = "metadata" -> "content"
    [] stage = "content" -> "images"
    [] stage = "images" -> "headers"
    [] stage = "headers" -> "footers"
    [] stage = "footers" -> "footnotes"
    [] OTHER -> "done"

StageAfter(stage) ==
  CASE stage = "metadata" -> "content"
    [] stage = "content" -> "headers"
    [] stage = "headers" -> "footers"
    [] stage = "footers" -> "footnotes"
    [] stage = "footnotes" -> "images"
    [] OTHER -> "done"

\* faulty variant of StageEnabled: the page headers are extracted in any case
StageEnabledHeadersAlways(stage, o) ==
  CASE stage = "metadata" -> o.includeMetadata
    [] stage = "footers" -> o.includeFooters
    [] stage = "images" -> o.includeImages
    [] OTHER -> TRUE

\* whether parse runs the stage at all
StageEnabled(stage, o) ==
  CASE stage = "metadata" -> o.includeMetadata
    [] stage = "headers" -> o.includeHeaders
    [] stage = "footers" -> o.includeFooters
    [] stage = "images" -> o.includeImages
    [] OTHER -> TRUE

(***************************************************************************)
(* Reading the container (ZipAdapter.extractFile / extractFiles)           *)
(***************************************************************************)
Room == MaxBlocks - BlockCount(zip)

CoreChoices ==
  { Part("absent", NoCoreXml), Part("corrupt", NoCoreXml) } \cup
  { Part("present", x) : x \in CoreXmls }

DocumentChoices ==
  { Part("absent", << >>), Part("corrupt", << >>) } \cup
  { Part("present", b) :
      b \in { c \in SeqsUpTo(BodyBlocks, Room) : BodyCost(c) <= Room } }

PagePartChoices ==
  { Part("corrupt", << >>) } \cup
  { Part("present", f) : f \in SeqsUpTo(PageParts, Room) }

FootnoteChoices ==
  { Part("absent", << >>), Part("corrupt", << >>) } \cup
  { Part("present", f) : f \in SeqsUpTo(FootnoteBlocks, Room) }

\* the files of word/media/ are image1.<ext>, image2.<ext>, ...
MediaChoices ==
  { Part("corrupt", << >>) } \cup
  { Part("present", [ i \in 1..Len(f) |-> [ name |-> i, ext |-> f[i].ext, length |-> f[i].length ] ]) :
      f \in SeqsUpTo(MediaParts, Room) }

\* what reading the part can give: loadAsync throws on an unreadable
\* container; a part already determined is read as it is
Read(name, choices) ==
  IF ~zip.readable THEN { Part("corrupt", zip[name].data) }
  ELSE IF zip[name].state = "unread" THEN choices
  ELSE { zip[name] }

(***************************************************************************)
(* Steps of the generator                                                  *)
(***************************************************************************)
NoLocals ==
  /\ order' = 0
  /\ elements' = << >>
  /\ tables' = << >>
  /\ headerFiles' = << >>
  /\ footerFiles' = << >>
  /\ footnotes' = << >>
  /\ mediaFiles' = << >>

\* the generator throws: the pending next() rejects, the generator is over
Fail(err) ==
  /\ pc' = "failed"
  /\ raised' = Append(raised, err)
  /\ pending' = FALSE
  /\ NoLocals
  /\ UNCHANGED << out, elementId, warnings >>

\* yield: the pending next() resolves with the element
Yield(e) ==
  /\ out' = Append(out, e)
  /\ elementId' = e.id.number
  /\ pending' = FALSE
  /\ UNCHANGED raised

\* the running stage is over: on to the stage after it, or the end
Leave(stage) ==
  /\ pc' = StageAfter(stage)
  /\ pending' = (StageAfter(stage) # "done")
  /\ NoLocals
  /\ UNCHANGED << out, elementId, raised >>

\* faulty variant of StageCatch: the stage's failure is thrown on to the caller
StageCatchRethrow(stage, from) ==
  /\ warnings' = warnings \cup { stage }
  /\ pc' = "failed"
  /\ raised' = Append(raised, ExecuteCatch(ParseCatch(DocxParseError(<< "Failed to extract", stage >>))))
  /\ pending' = FALSE
  /\ NoLocals
  /\ UNCHANGED << out, elementId >>

\* a secondary stage's catch, reached while the stage `from` of parse
\* runs: console.warn, and the stage is over
StageCatch(stage, from) ==
  /\ warnings' = warnings \cup { stage }
  /\ Leave(from)

Init ==
  /\ source \in { "null", "buffer", "stream" }
  /\ options \in OptionSets
  /\ repository \in { "DocxRepository", "stub" }
  /\ zip = UnreadZip
  /\ pc = "created"
  /\ pending = FALSE
  /\ out = << >>
  /\ raised = << >>
  /\ polled = FALSE
  /\ elementId = 0
  /\ order = 0
  /\ elements = << >>
  /\ tables = << >>
  /\ headerFiles = << >>
  /\ footerFiles = << >>
  /\ footnotes = << >>
  /\ mediaFiles = << >>
  /\ warnings = { }
  /\ chunks = 0
  /\ other = NotStarted
  /\ textRun = NoText
  /\ validation = NoValidation
  /\ conversion = NoConversion
  /\ metadataRun = NoMetadataRun

\* the consumer asks for the next element
ConsumerNext ==
  /\ ~pending
  /\ ~Ended
  /\ pending' = TRUE
  /\ UNCHANGED << inputs, zip, pc, out, raised, polled, elementId, locals, warnings >>

\* the consumer stops iterating: generator.return()
ConsumerReturn ==
  /\ ~pending
  /\ ~Ended
  /\ pc' = "closed"
  /\ NoLocals
  /\ UNCHANGED << inputs, zip, pending, out, raised, polled, elementId, warnings >>

\* next() on a sequence that ended: { done: true }
ConsumerPoll ==
  /\ Ended
  /\ ~polled
  /\ polled' = TRUE
  /\ UNCHANGED << inputs, zip, pc, pending, out, raised, elementId, locals, warnings >>

\* ParseDocumentUseCaseImpl.execute up to the delegation (part_001 18-25)
Execute ==
  /\ pc = "created"
  /\ pending
  /\ IF source = "null"
     THEN Fail(ExecuteCatch(DocxParseError(<< "Source cannot be null or undefined" >>)))
     ELSE /\ pc' = "parse"
          /\ UNCHANGED << pending, out, raised, elementId, locals, warnings >>
  /\ UNCHANGED << inputs, zip, polled >>

\* a repository given to the constructor whose parse throws at once
StubParse ==
  /\ pc = "parse"
  /\ pending
  /\ repository = "stub"
  /\ \E err \in { GenericError(<< "Generic error" >>), DocxParseError(<< "Test error" >>) } :
       Fail(ExecuteCatch(err))
  /\ UNCHANGED << inputs, zip, polled >>

\* DocxRepository.parse on a Buffer, up to the first stage (index.ts 36-58)
Parse ==
  /\ pc = "parse"
  /\ pending
  /\ repository = "DocxRepository"
  /\ source = "buffer"
  /\ \E r \in BOOLEAN : zip' = [ zip EXCEPT !.readable = r ]
  /\ pc' = "metadata"
  /\ UNCHANGED << pending, out, raised, elementId, locals, warnings >>
  /\ UNCHANGED << inputs, polled >>

\* faulty variant of StreamReadNext: the loop is left after the first read
StreamReadNextEager(result) == "metadata"

\* streamToBuffer's while (!done): where parse stands after a read
StreamReadNext(result) == IF result = "done" THEN "metadata" ELSE "parse"

\* DocxRepository.parse on a ReadableStream: one reader.read() of
\* streamToBuffer (index.ts 92-110), which gives a chunk, the end of the
\* stream, or rejects when the stream errors; at the end the chunks are the
\* buffer parse goes on with
StreamToBuffer ==
  /\ pc = "parse"
  /\ pending
  /\ repository = "DocxRepository"
  /\ source = "stream"
  /\ \/ /\ Fail(ExecuteCatch(ParseCatch(GenericError(<< "stream error" >>))))
        /\ UNCHANGED << zip, source, chunks >>
     \/ /\ chunks < MaxChunks
        /\ chunks' = chunks + 1
        /\ pc' = StreamReadNext("chunk")
        /\ UNCHANGED << zip, source, pending, out, raised, elementId, locals, warnings >>
     \/ /\ source' = IF StreamReadNext("done") = "metadata" THEN "buffer" ELSE source
        /\ chunks' = 0
        /\ \E r \in BOOLEAN : zip' = [ zip EXCEPT !.readable = r ]
        /\ pc' = StreamReadNext("done")
        /\ UNCHANGED << pending, out, raised, elementId, locals, warnings >>
  /\ UNCHANGED << options, repository, polled, other, textRun, metadataRun, conversion, validation >>

\* extractMetadata (index.ts 60-63, 112-163)
ExtractMetadata ==
  /\ pc = "metadata"
  /\ pending
  /\ IF ~StageEnabled("metadata", opts)
     THEN /\ Leave("metadata")
          /\ UNCHANGED zip
     ELSE \E part \in Read("core", CoreChoices) :
            /\ zip' = [ zip EXCEPT !.core = part ]
            /\ Yield([ Element("metadata", "metadata", getNextId(elementId), 0)
                         EXCEPT !.metadata = MetadataContent(part) ])
            /\ pc' = StageAfter("metadata")
            /\ UNCHANGED locals
  /\ UNCHANGED << inputs, polled, warnings >>

\* extractContent up to its loop (index.ts 170-181)
ExtractContent ==
  /\ pc = "content"
  /\ pending
  /\ \E part \in Read("document", DocumentChoices) :
       /\ zip' = [ zip EXCEPT !.document = part ]
       /\ CASE part.state = "corrupt" ->
                 Fail(ExecuteCatch(ParseCatch(ContentCatch(
                   DocxParseError(<< "Failed to extract file word/document.xml" >>)))))
            [] part.state = "absent" ->
                 Fail(ExecuteCatch(ParseCatch(ContentCatch(
                   DocxParseError(<< "Main document XML not found" >>)))))
            [] part.state = "present" /\ Malformed(part.data, "p") ->
                 Fail(ExecuteCatch(ParseCatch(ContentCatch(
                   DocxParseError(<< "Failed to extract paragraphs with formatting" >>)))))
            [] OTHER ->
                 /\ elements' = extractParagraphsWithFormattingFromXml(part.data)
                 /\ order' = ContentOrderStart
                 /\ pc' = "paragraphs"
                 /\ UNCHANGED << pending, out, raised, elementId, tables, headerFiles,
                                 footerFiles, footnotes, mediaFiles, warnings >>
  /\ UNCHANGED << inputs, polled >>

\* extractContent's loop and what follows it (index.ts 183-228)
ContentNext ==
  /\ pc = "paragraphs"
  /\ pending
  /\ IF elements # << >>
     THEN /\ Yield(ContentElement(Head(elements), getNextId(elementId), order, opts))
          /\ elements' = Tail(elements)
          /\ order' = order + 1
          /\ UNCHANGED << pc, tables, headerFiles, footerFiles, footnotes, mediaFiles >>
     ELSE IF opts.includeTables
     THEN /\ pc' = "tables"
          /\ UNCHANGED << pending, out, raised, elementId, locals >>
     ELSE Leave("content")
  /\ UNCHANGED << inputs, zip, polled, warnings >>

\* extractTables up to its loop (index.ts 242-244)
ExtractTables ==
  /\ pc = "tables"
  /\ pending
  /\ IF Malformed(zip.document.data, "tbl")
     THEN StageCatch("tables", "content")
     ELSE /\ tables' = extractTablesFromXml(zip.document.data)
          /\ pc' = "tableLoop"
          /\ UNCHANGED << pending, out, raised, elementId, order, elements, headerFiles,
                          footerFiles, footnotes, mediaFiles, warnings >>
  /\ UNCHANGED << inputs, zip, polled >>

\* extractTables' loop (index.ts 246-262)
TablesNext ==
  /\ pc = "tableLoop"
  /\ pending
  /\ IF tables # << >>
     THEN /\ Yield(TableElement(Head(tables), getNextId(elementId), order, opts))
          /\ tables' = Tail(tables)
          /\ order' = order + 1
          /\ UNCHANGED << pc, elements, headerFiles, footerFiles, footnotes, mediaFiles >>
     ELSE Leave("content")
  /\ UNCHANGED << inputs, zip, polled, warnings >>

\* extractHeaders up to its loop (index.ts 68-71, 340-343)
ExtractHeaders ==
  /\ pc = "headers"
  /\ pending
  /\ IF ~StageEnabled("headers", opts)
     THEN /\ Leave("headers")
          /\ UNCHANGED << zip, warnings >>
     ELSE \E part \in Read("headers", PagePartChoices) :
            /\ zip' = [ zip EXCEPT !.headers = part ]
            /\ IF part.state = "corrupt"
               THEN StageCatch("headers", "headers")
               ELSE /\ headerFiles' = part.data
                    /\ order' = HeaderOrderStart
                    /\ pc' = "headerLoop"
                    /\ UNCHANGED << pending, out, raised, elementId, elements, tables,
                                    footerFiles, footnotes, mediaFiles, warnings >>
  /\ UNCHANGED << inputs, polled >>

\* extractHeaders' loop (index.ts 345-372)
HeadersNext ==
  /\ pc = "headerLoop"
  /\ pending
  /\ IF headerFiles = << >>
     THEN /\ Leave("headers")
          /\ UNCHANGED warnings
     ELSE IF Head(headerFiles).malformed
     THEN StageCatch("headers", "headers")
     ELSE IF ~extractHeaderFromXml(Head(headerFiles)).found
     THEN /\ headerFiles' = Tail(headerFiles)
          /\ UNCHANGED << pc, pending, out, raised, elementId, order, elements, tables,
                          footerFiles, footnotes, mediaFiles, warnings >>
     ELSE /\ Yield(HeaderElement(extractHeaderFromXml(Head(headerFiles)),
                                 getNextId(elementId), order))
          /\ headerFiles' = Tail(headerFiles)
          /\ order' = order + 1
          /\ UNCHANGED << pc, elements, tables, footerFiles, footnotes, mediaFiles, warnings >>
  /\ UNCHANGED << inputs, zip, polled >>

\* extractFooters up to its loop (index.ts 73-76, 379-382)
ExtractFooters ==
  /\ pc = "footers"
  /\ pending
  /\ IF ~StageEnabled("footers", opts)
     THEN /\ Leave("footers")
          /\ UNCHANGED << zip, warnings >>
     ELSE \E part \in Read("footers", PagePartChoices) :
            /\ zip' = [ zip EXCEPT !.footers = part ]
            /\ IF part.state = "corrupt"
               THEN StageCatch("footers", "footers")
               ELSE /\ footerFiles' = part.data
                    /\ order' = FooterOrderStart
                    /\ pc' = "footerLoop"
                    /\ UNCHANGED << pending, out, raised, elementId, elements, tables,
                                    headerFiles, footnotes, mediaFiles, warnings >>
  /\ UNCHANGED << inputs, polled >>

\* extractFooters' loop (index.ts 384-407)
FootersNext ==
  /\ pc = "footerLoop"
  /\ pending
  /\ IF footerFiles = << >>
     THEN /\ Leave("footers")
          /\ UNCHANGED warnings
     ELSE IF Head(footerFiles).malformed
     THEN StageCatch("footers", "footers")
     ELSE IF ~extractFooterFromXml(Head(footerFiles)).found
     THEN /\ footerFiles' = Tail(footerFiles)
          /\ UNCHANGED << pc, pending, out, raised, elementId, order, elements, tables,
                          headerFiles, footnotes, mediaFiles, warnings >>
     ELSE /\ Yield(FooterElement(extractFooterFromXml(Head(footerFiles)),
                                 getNextId(elementId), order))
          /\ footerFiles' = Tail(footerFiles)
          /\ order' = order + 1
          /\ UNCHANGED << pc, elements, tables, headerFiles, footnotes, mediaFiles, warnings >>
  /\ UNCHANGED << inputs, zip, polled >>

\* extractFootnotes up to its loop (index.ts 78-79, 414-421)
ExtractFootnotes ==
  /\ pc = "footnotes"
  /\ pending
  /\ \E part \in Read("footnotes", FootnoteChoices) :
       /\ zip' = [ zip EXCEPT !.footnotes = part ]
       /\ CASE part.state = "corrupt"
                 \/ (part.state = "present" /\ \E i \in 1..Len(part.data) : part.data[i].malformed) ->
                 StageCatch("footnotes", "footnotes")
            [] part.state = "absent" ->
                 /\ Leave("footnotes")
                 /\ UNCHANGED warnings
            [] OTHER ->
                 /\ footnotes' = extractFootnotesFromXml(part.data)
                 /\ order' = FootnoteOrderStart
                 /\ pc' = "footnoteLoop"
                 /\ UNCHANGED << pending, out, raised, elementId, elements, tables,
                                 headerFiles, footerFiles, mediaFiles, warnings >>
  /\ UNCHANGED << inputs, polled >>

\* extractFootnotes' loop (index.ts 423-441)
FootnotesNext ==
  /\ pc = "footnoteLoop"
  /\ pending
  /\ IF footnotes = << >>
     THEN Leave("footnotes")
     ELSE /\ Yield(FootnoteElement(Head(footnotes), getNextId(elementId), order))
          /\ footnotes' = Tail(footnotes)
          /\ order' = order + 1
          /\ UNCHANGED << pc, elements, tables, headerFiles, footerFiles, mediaFiles >>
  /\ UNCHANGED << inputs, zip, polled, warnings >>

\* extractImages up to its loop (index.ts 81-84, 274-277)
ExtractImages ==
  /\ pc = "images"
  /\ pending
  /\ IF ~StageEnabled("images", opts)
     THEN /\ Leave("images")
          /\ UNCHANGED << zip, warnings >>
     ELSE \E part \in Read("media", MediaChoices) :
            /\ zip' = [ zip EXCEPT !.media = part ]
            /\ IF part.state = "corrupt"
               THEN StageCatch("images", "images")
               ELSE /\ mediaFiles' = part.data
                    /\ order' = ImageOrderStart
                    /\ pc' = "imageLoop"
                    /\ UNCHANGED << pending, out, raised, elementId, elements, tables,
                                    headerFiles, footerFiles, footnotes, warnings >>
  /\ UNCHANGED << inputs, polled >>

\* extractImages' loop (index.ts 279-304)
ImagesNext ==
  /\ pc = "imageLoop"
  /\ pending
  /\ IF mediaFiles = << >>
     THEN Leave("images")
     ELSE IF TooLarge(Head(mediaFiles), opts) \/ getImageFormat(Head(mediaFiles).ext) = "null"
     THEN /\ mediaFiles' = Tail(mediaFiles)
          /\ UNCHANGED << pc, pending, out, raised, elementId, order, elements, tables,
                          headerFiles, footerFiles, footnotes >>
     ELSE /\ Yield(ImageElement(Head(mediaFiles), getNextId(elementId), order))
          /\ mediaFiles' = Tail(mediaFiles)
          /\ order' = order + 1
          /\ UNCHANGED << pc, elements, tables, headerFiles, footerFiles, footnotes >>
  /\ UNCHANGED << inputs, zip, polled, warnings >>

Next ==
  \/ ConsumerNext
  \/ ConsumerReturn
  \/ ConsumerPoll
  \/ Execute
  \/ StubParse
  \/ Parse
  \/ StreamToBuffer
  \/ ExtractMetadata
  \/ ExtractContent
  \/ ContentNext
  \/ ExtractTables
  \/ TablesNext
  \/ ExtractHeaders
  \/ HeadersNext
  \/ ExtractFooters
  \/ FootersNext
  \/ ExtractFootnotes
  \/ FootnotesNext
  \/ ExtractImages
  \/ ImagesNext

Spec == Init /\ [][Next]_vars

(***************************************************************************)
(* Runs over a document whose body is one block, drawn from the style      *)
(* names, formatting markup and texts the analyzer tells apart             *)
(***************************************************************************)
HeadingStyle == << "H", "e", "a", "d", "i", "n", "g" >>
TitleStyle == << "T", "i", "t", "l", "e" >>
SubtitleStyle == << "S", "u", "b", "t", "i", "t", "l", "e" >>
StyleNames ==
  { NoStyle, HeadingStyle, Heading2Style,
    HeadingStyle \o << "0" >>, HeadingStyle \o << "7" >>,
    << "h", "3" >> \o Heading2Style,
    TitleStyle, SubtitleStyle,
    << "h", "2" >>, << "H", "3" >>,
    << "N", "o", "r", "m", "a", "l" >> }

\* no w:strike, <w:strike w:val="1"/>, <w:strike/>, <w:strike w:val="0"/>
StrikeMarkups == { "none", "val=1", "bare", "val=0" }

TwoWords == << "a", " ", " ", "b" >>

StyledParagraphs ==
  { Paragraph(st, "none", Foo) : st \in StyleNames } \cup
  { BoldParagraph(st, "none", Foo) : st \in StyleNames } \cup
  { Paragraph(st, k, Foo) : st \in { NoStyle, Heading2Style }, k \in StrikeMarkups } \cup
  { Paragraph(NoStyle, "none", t) : t \in { Blank, TwoWords } }

OneBlockBodies ==
  { << [ kind |-> "p", par |-> p, rows |-> << >>, malformed |-> FALSE ] >> :
      p \in StyledParagraphs } \cup
  { << [ kind |-> "tbl", par |-> NoParagraph,
         rows |-> << << << Paragraph(NoStyle, "none", TwoWords) >> >> >>,
         malformed |-> FALSE ] >> }

\* every filter on, normalizeWhitespace left unset, on and off
BodyOptionSets ==
  [ includeMetadata : { "true" }, includeImages : { "true" },
    includeTables : { "true" }, includeHeaders : { "true" },
    includeFooters : { "true" }, normalizeWhitespace : Flags,
    maxImageSize : { SmallImageLimit },
    imageFormat : { Unset }, preserveFormatting : { Unset },
    chunkSize : { 0 }, concurrent : { Unset } ]

InitBody ==
  /\ source \in { "null", "buffer", "stream" }
  /\ options \in BodyOptionSets
  /\ repository \in { "DocxRepository", "stub" }
  /\ zip \in { [ UnreadZip EXCEPT !.document = Part("present", body) ] : body \in OneBlockBodies }
  /\ pc = "created"
  /\ pending = FALSE
  /\ out = << >>
  /\ raised = << >>
  /\ polled = FALSE
  /\ elementId = 0
  /\ order = 0
  /\ elements = << >>
  /\ tables = << >>
  /\ headerFiles = << >>
  /\ footerFiles = << >>
  /\ footnotes = << >>
  /\ mediaFiles = << >>
  /\ warnings = { }
  /\ chunks = 0
  /\ other = NotStarted
  /\ textRun = NoText
  /\ validation = NoValidation
  /\ conversion = NoConversion
  /\ metadataRun = NoMetadataRun

SpecBody == InitBody /\ [][Next]_vars

(***************************************************************************)
(* What one run over a buffer yields, stage by stage, as a function of     *)
(* the container the buffer holds and of the resolved options; the ids are *)
(* left to the run's own getNextId                                         *)
(***************************************************************************)
Unnumbered == 0

\* ZipAdapter.extractFile / extractFiles on the buffer
PartOf(z, name) == IF z.readable THEN z[name] ELSE Part("corrupt", z[name].data)

RECURSIVE BeforeMalformed(_)
BeforeMalformed(fs) ==
  IF fs = << >> \/ Head(fs).malformed THEN << >>
  ELSE << Head(fs) >> \o BeforeMalformed(Tail(fs))

MetadataYields(z, o) ==
  IF o.includeMetadata
  THEN << [ Element("metadata", "metadata", Unnumbered, 0)
              EXCEPT !.metadata = MetadataContent(PartOf(z, "core")) ] >>
  ELSE << >>

ContentThrows(z) ==
  \/ PartOf(z, "document").state # "present"
  \/ Malformed(z.document.data, "p")

ParagraphYields(z, o) ==
  LET es == extractParagraphsWithFormattingFromXml(z.document.data)
  IN [ i \in DOMAIN es |-> ContentElement(es[i], Unnumbered, ContentOrderStart + i - 1, o) ]

TableYields(z, o) ==
  IF o.includeTables /\ ~Malformed(z.document.data, "tbl")
  THEN LET ts == extractTablesFromXml(z.document.data)
       IN [ i \in DOMAIN ts |->
              TableElement(ts[i], Unnumbered,
                           ContentOrderStart + Len(ParagraphYields(z, o)) + i - 1, o) ]
  ELSE << >>

HeaderYields(z, o) ==
  IF o.includeHeaders /\ PartOf(z, "headers").state = "present"
  THEN LET found == SelectSeq(BeforeMalformed(z.headers.data),
                              LAMBDA f : extractHeaderFromXml(f).found)
       IN [ i \in DOMAIN found |->
              HeaderElement(extractHeaderFromXml(found[i]), Unnumbered, HeaderOrderStart + i - 1) ]
  ELSE << >>

FooterYields(z, o) ==
  IF o.includeFooters /\ PartOf(z, "footers").state = "present"
  THEN LET found == SelectSeq(BeforeMalformed(z.footers.data),
                              LAMBDA f : extractFooterFromXml(f).found)
       IN [ i \in DOMAIN found |->
              FooterElement(extractFooterFromXml(found[i]), Unnumbered, FooterOrderStart + i - 1) ]
  ELSE << >>

FootnoteYields(z) ==
  IF /\ PartOf(z, "footnotes").state = "present"
     /\ \A i \in DOMAIN z.footnotes.data : ~z.footnotes.data[i].malformed
  THEN LET notes == extractFootnotesFromXml(z.footnotes.data)
       IN [ i \in DOMAIN notes |->
              FootnoteElement(notes[i], Unnumbered, FootnoteOrderStart + i - 1) ]
  ELSE << >>

ImageYields(z, o) ==
  IF o.includeImages /\ PartOf(z, "media").state = "present"
  THEN LET kept == SelectSeq(z.media.data,
                             LAMBDA f : ~TooLarge(f, o) /\ getImageFormat(f.ext) # "null")
       IN [ i \in DOMAIN kept |-> ImageElement(kept[i], Unnumbered, ImageOrderStart + i - 1) ]
  ELSE << >>

\* parse over the buffer, iterated to its end: the elements in the order of
\* the stages, up to the throw of the content stage if it throws
ParseYields(z, o) ==
  IF ContentThrows(z) THEN MetadataYields(z, o)
  ELSE MetadataYields(z, o) \o ParagraphYields(z, o) \o TableYields(z, o)
         \o HeaderYields(z, o) \o FooterYields(z, o) \o FootnoteYields(z)
         \o ImageYields(z, o)

(***************************************************************************)
(* Two runs over the same buffer with the same options, interleaved        *)
(* element by element: the run above (execute, consumed step by step) and  *)
(* another call of parse, each with the elementId of its own call          *)
(***************************************************************************)
\* the containers the shared buffer holds, every part determined
SharedBuffers ==
  { [ readable |-> TRUE,
      core |-> Part("absent", NoCoreXml),
      document |-> Part("present",
        << [ kind |-> "p", par |-> Paragraph(Heading2Style, "none", Foo),
             rows |-> << >>, malformed |-> FALSE ],
           [ kind |-> "p", par |-> Paragraph(NoStyle, "val=1", Foo),
             rows |-> << >>, malformed |-> FALSE ] >>),
      headers |-> Part("present", << [ text |-> Foo, hasPageNumber |-> FALSE, malformed |-> FALSE ] >>),
      footers |-> Part("present", << >>),
      footnotes |-> Part("present", << [ id |-> "0", text |-> Foo, malformed |-> FALSE ] >>),
      media |-> Part("present", << [ name |-> 1, ext |-> Png, length |-> SmallImageLimit ] >>) ],
    [ readable |-> TRUE,
      core |-> Part("absent", NoCoreXml),
      document |-> Part("present",
        << [ kind |-> "tbl", par |-> NoParagraph,
             rows |-> << << << Paragraph(NoStyle, "none", Foo) >> >> >>,
             malformed |-> FALSE ] >>),
      headers |-> Part("present", << >>),
      footers |-> Part("present", << >>),
      footnotes |-> Part("absent", << >>),
      media |-> Part("present", << [ name |-> 1, ext |-> Bmp, length |-> SmallImageLimit ],
                                   [ name |-> 2, ext |-> Png, length |-> SmallImageLimit ] >>) ],
    [ readable |-> TRUE,
      core |-> Part("absent", NoCoreXml),
      document |-> Part("absent", << >>),
      headers |-> Part("present", << >>),
      footers |-> Part("present", << >>),
      footnotes |-> Part("absent", << >>),
      media |-> Part("present", << >>) ] }

InitRuns ==
  /\ source \in { "null", "buffer", "stream" }
  /\ options \in { NoOptions } \cup BodyOptionSets
  /\ repository \in { "DocxRepository", "stub" }
  /\ zip \in SharedBuffers
  /\ pc = "created"
  /\ pending = FALSE
  /\ out = << >>
  /\ raised = << >>
  /\ polled = FALSE
  /\ elementId = 0
  /\ order = 0
  /\ elements = << >>
  /\ tables = << >>
  /\ headerFiles = << >>
  /\ footerFiles = << >>
  /\ footnotes = << >>
  /\ mediaFiles = << >>
  /\ warnings = { }
  /\ chunks = 0
  /\ other = NotStarted
  /\ textRun = NoText
  /\ validation = NoValidation
  /\ conversion = NoConversion
  /\ metadataRun = NoMetadataRun

\* faulty variant of CounterOf: one elementId for every call of parse
CounterShared(mine, theirs) == IF mine > theirs THEN mine ELSE theirs

\* the elementId getNextId closes over: the let of its own call of parse
CounterOf(mine, theirs) == mine

\* one step of the other run, once the buffer exists: its next yield, or
\* its end
OtherRunNext ==
  /\ repository = "DocxRepository"
  /\ source = "buffer"
  /\ pc \notin { "created", "parse" }
  /\ other.pc \in { "created", "running" }
  /\ LET yields == ParseYields(zip, opts)
         k == Len(other.out)
         n == getNextId(CounterOf(other.elementId, elementId))
     IN IF k < Len(yields)
        THEN other' = [ out |-> Append(other.out, [ yields[k + 1] EXCEPT !.id = ElementIdOf(n) ]),
                        elementId |-> n,
                        pc |-> "running" ]
        ELSE other' = [ other EXCEPT !.pc = IF ContentThrows(zip) THEN "failed" ELSE "done" ]
  /\ UNCHANGED << thisRun, metadataRun, conversion, validation >>

NextRuns ==
  \/ Next
  \/ OtherRunNext

SpecRuns == InitRuns /\ [][NextRuns]_vars

(***************************************************************************)
(* ExtractContentUseCaseImpl.extractText: a consumer of execute            *)
(***************************************************************************)
\* faulty variant of ExtractTextOptions: the tables are left out
ExtractTextOptionsNoTables ==
  [ NoOptions EXCEPT !.includeMetadata = "false", !.includeImages = "false",
                     !.includeTables = "false", !.preserveFormatting = "false" ]

\* extractText's parseOptions, the call's own options left out:
\* preserveFormatting: options.preserveFormatting ?? false
ExtractTextOptions ==
  [ NoOptions EXCEPT !.includeMetadata = "false", !.includeImages = "false",
                     !.includeTables = "true", !.preserveFormatting = "false" ]

\* Array.prototype.join
RECURSIVE Join(_, _)
Join(parts, sep) ==
  IF parts = << >> THEN << >>
  ELSE IF Len(parts) = 1 THEN parts[1]
  ELSE parts[1] \o << sep >> \o Join(Tail(parts), sep)

\* element.content.map(row => row.cells.map(cell => cell.content).join('\t')).join('\n')
TableText(e) == Join([ r \in DOMAIN e.rows |-> Join(e.rows[r], "\t") ], "\n")

\* the body of extractText's loop: what the element adds to textParts
TextPartsOf(e) ==
  CASE e.type = "paragraph" -> << e.content >>
    [] e.type = "table" -> << TableText(e) >>
    [] e.type = "header" -> << e.content >>
    [] OTHER -> << >>

InitText ==
  /\ source \in { "null", "buffer", "stream" }
  /\ options = ExtractTextOptions
  /\ repository \in { "DocxRepository", "stub" }
  /\ zip = UnreadZip
  /\ pc = "created"
  /\ pending = FALSE
  /\ out = << >>
  /\ raised = << >>
  /\ polled = FALSE
  /\ elementId = 0
  /\ order = 0
  /\ elements = << >>
  /\ tables = << >>
  /\ headerFiles = << >>
  /\ footerFiles = << >>
  /\ footnotes = << >>
  /\ mediaFiles = << >>
  /\ warnings = { }
  /\ chunks = 0
  /\ other = NotStarted
  /\ textRun = NoText
  /\ validation = NoValidation
  /\ conversion = NoConversion
  /\ metadataRun = NoMetadataRun

\* extractText's for await over execute: it takes the next element, returns
\* textParts.join('\n') at the end of the sequence, and throws a
\* DocxParseError when the sequence raises
ExtractText ==
  /\ textRun.state = "running"
  /\ IF textRun.taken < Len(out)
     THEN textRun' = [ textRun EXCEPT
                         !.textParts = @ \o TextPartsOf(out[textRun.taken + 1]),
                         !.taken = @ + 1 ]
     ELSE /\ pc \in { "done", "failed" }
          /\ textRun' =
               IF pc = "done"
               THEN [ textRun EXCEPT !.state = "returned",
                                     !.value = Join(textRun.textParts, "\n") ]
               ELSE [ textRun EXCEPT !.state = "thrown",
                                     !.value = << "Failed to extract text" >> \o raised[1].message ]
  /\ UNCHANGED << execution, other, metadataRun, conversion, validation >>

\* the loop iterates execute to its end; with extractText's options the
\* loops over page headers, footers and media files are never entered
NextText ==
  \/ ConsumerNext
  \/ Execute
  \/ StubParse
  \/ Parse
  \/ StreamToBuffer
  \/ ExtractMetadata
  \/ ExtractContent
  \/ ContentNext
  \/ ExtractTables
  \/ TablesNext
  \/ ExtractHeaders
  \/ ExtractFooters
  \/ ExtractFootnotes
  \/ FootnotesNext
  \/ ExtractImages
  \/ ExtractText

SpecText == InitText /\ [][NextText]_vars

(***************************************************************************)
(* ExtractContentUseCaseImpl.extractMetadata: a consumer of execute that   *)
(* leaves its loop at the first metadata element                           *)
(***************************************************************************)
\* faulty variant of ExtractMetadataOptions: the metadata is not asked for
ExtractMetadataOptionsNoMetadata ==
  [ NoOptions EXCEPT !.includeMetadata = "false", !.includeImages = "false",
                     !.includeTables = "false", !.includeHeaders = "false",
                     !.includeFooters = "false" ]

\* extractMetadata's parseOptions
ExtractMetadataOptions ==
  [ NoOptions EXCEPT !.includeMetadata = "true", !.includeImages = "false",
                     !.includeTables = "false", !.includeHeaders = "false",
                     !.includeFooters = "false" ]

\* parseDocument's options when every filter is given as true
AllFilters ==
  [ NoOptions EXCEPT !.includeMetadata = "true", !.includeImages = "true",
                     !.includeTables = "true", !.includeHeaders = "true",
                     !.includeFooters = "true" ]

\* the call is extractMetadata(source), or execute(source, options)
\* iterated by the caller
InitMetadata ==
  /\ source \in { "null", "buffer", "stream" }
  /\ \/ /\ metadataRun = [ NoMetadataRun EXCEPT !.state = "running" ]
        /\ options = ExtractMetadataOptions
     \/ /\ metadataRun = NoMetadataRun
        /\ options = AllFilters
  /\ repository \in { "DocxRepository", "stub" }
  /\ zip = UnreadZip
  /\ pc = "created"
  /\ pending = FALSE
  /\ out = << >>
  /\ raised = << >>
  /\ polled = FALSE
  /\ elementId = 0
  /\ order = 0
  /\ elements = << >>
  /\ tables = << >>
  /\ headerFiles = << >>
  /\ footerFiles = << >>
  /\ footnotes = << >>
  /\ mediaFiles = << >>
  /\ warnings = { }
  /\ chunks = 0
  /\ other = NotStarted
  /\ textRun = NoText
  /\ validation = NoValidation
  /\ conversion = NoConversion

\* a repository whose parse yields one paragraph and ends (the use case's
\* unit test 'should return empty metadata when none found')
StubParseYields ==
  /\ pending
  /\ repository = "stub"
  /\ \/ /\ pc = "parse"
        /\ Yield([ Element("paragraph", "content", getNextId(elementId), ContentOrderStart)
                     EXCEPT !.content = Foo ])
        /\ pc' = "stubbed"
        /\ UNCHANGED locals
     \/ /\ pc = "stubbed"
        /\ pc' = "done"
        /\ pending' = FALSE
        /\ UNCHANGED << out, raised, elementId, locals >>
  /\ UNCHANGED << inputs, zip, polled, warnings >>

\* extractMetadata's for await over execute (extract-content.use-case.ts
\* 88-95): the loop asks for an element only when its body is through with
\* the one before; the body returns the content of a metadata element, which
\* closes the generator where it stands; at the end of the sequence the call
\* returns {}; when the sequence raises, the call throws a DocxParseError
ExtractMetadataLoop ==
  /\ metadataRun.state = "running"
  /\ IF metadataRun.taken < Len(out)
     THEN IF out[metadataRun.taken + 1].type = "metadata"
          THEN /\ metadataRun' = [ metadataRun EXCEPT
                                     !.taken = @ + 1,
                                     !.state = "returned",
                                     !.value = out[metadataRun.taken + 1].metadata ]
               /\ pc' = "closed"
               /\ NoLocals
               /\ UNCHANGED pending
          ELSE /\ metadataRun' = [ metadataRun EXCEPT !.taken = @ + 1 ]
               /\ UNCHANGED << pc, pending, locals >>
     ELSE IF pc = "done"
     THEN /\ metadataRun' = [ metadataRun EXCEPT !.state = "returned", !.value = NoMetadata ]
          /\ UNCHANGED << pc, pending, locals >>
     ELSE IF pc = "failed"
     THEN /\ metadataRun' = [ metadataRun EXCEPT
                                !.state = "thrown",
                                !.value = << "Failed to extract metadata" >> \o raised[1].message ]
          /\ UNCHANGED << pc, pending, locals >>
     ELSE /\ ~pending
          /\ pending' = TRUE
          /\ UNCHANGED << metadataRun, pc, locals >>
  /\ UNCHANGED << source, options, repository, chunks, other, textRun, conversion,
                  validation, zip, out, raised, polled, elementId, warnings >>

\* the caller's own loop over execute, when extractMetadata is not the call
CallerNext == metadataRun.state = "idle" /\ ConsumerNext
CallerReturn == metadataRun.state = "idle" /\ ConsumerReturn
CallerPoll == metadataRun.state = "idle" /\ ConsumerPoll

NextMetadata ==
  \/ CallerNext
  \/ CallerReturn
  \/ CallerPoll
  \/ Execute
  \/ StubParse
  \/ StubParseYields
  \/ Parse
  \/ StreamToBuffer
  \/ ExtractMetadata
  \/ ExtractContent
  \/ ContentNext
  \/ ExtractTables
  \/ TablesNext
  \/ ExtractHeaders
  \/ HeadersNext
  \/ ExtractFooters
  \/ FootersNext
  \/ ExtractFootnotes
  \/ FootnotesNext
  \/ ExtractImages
  \/ ImagesNext
  \/ ExtractMetadataLoop

SpecMetadata == InitMetadata /\ [][NextMetadata]_vars

(***************************************************************************)
(* StreamAdapter: a buffer handed out as a stream and collected again by   *)
(* toBuffer.  The routes: fromBuffer (a Web stream that cuts the buffer    *)
(* into chunks as the reader pulls), a Node Readable read by               *)
(* nodeStreamToBuffer, and a Node Readable wrapped by nodeToWebStream and  *)
(* read by webStreamToBuffer.  A Node stream delivers the buffer in chunks *)
(* of any sizes.                                                           *)
(***************************************************************************)
\* the longest buffer converted
MaxBytes == 3
\* fromBuffer's chunkSize (64 KiB in the program), scaled to the buffers
\* of the model
ChunkSize == 2

Bytes == { "x", "y" }
Buffers == SeqsUpTo(Bytes, MaxBytes)
Routes == { "fromBuffer", "node", "nodeToWeb" }

Min(a, b) == IF a < b THEN a ELSE b

\* faulty variant of Subarray: the chunk starts one byte late
SubarrayLate(b, start, end) == SubSeq(b, start + 2, end)

\* buffer.subarray(start, end): the bytes at the offsets start..end-1
Subarray(b, start, end) == SubSeq(b, start + 1, end)

\* Buffer.concat
BufferConcat(cs) == Flatten(cs)

InitStream ==
  /\ source = "buffer"
  /\ options = NoOptions
  /\ repository = "DocxRepository"
  /\ zip = UnreadZip
  /\ pc = "created"
  /\ pending = FALSE
  /\ out = << >>
  /\ raised = << >>
  /\ polled = FALSE
  /\ elementId = 0
  /\ order = 0
  /\ elements = << >>
  /\ tables = << >>
  /\ headerFiles = << >>
  /\ footerFiles = << >>
  /\ footnotes = << >>
  /\ mediaFiles = << >>
  /\ warnings = { }
  /\ chunks = 0
  /\ other = NotStarted
  /\ textRun = NoText
  /\ validation = NoValidation
  /\ metadataRun = NoMetadataRun
  /\ \E b \in Buffers, r \in Routes :
       conversion = [ NoConversion EXCEPT !.route = r, !.bytes = b, !.state = "reading" ]

\* fromBuffer's pull(controller), called when the stream's queue is empty
FromBufferPull ==
  /\ conversion.route = "fromBuffer"
  /\ conversion.state = "reading"
  /\ conversion.queue = << >>
  /\ ~conversion.closed
  /\ IF conversion.position >= Len(conversion.bytes)
     THEN conversion' = [ conversion EXCEPT !.closed = TRUE ]
     ELSE LET chunk == Subarray(conversion.bytes, conversion.position,
                                Min(conversion.position + ChunkSize, Len(conversion.bytes)))
          IN conversion' = [ conversion EXCEPT
                               !.queue = Append(@, chunk),
                               !.position = @ + Len(chunk) ]
  /\ UNCHANGED << execution, other, textRun, metadataRun, validation >>

\* the Node stream's 'data' event with its next chunk: nodeStreamToBuffer
\* pushes it to chunks, nodeToWebStream enqueues a view of it
NodeData ==
  /\ conversion.route \in { "node", "nodeToWeb" }
  /\ conversion.state = "reading"
  /\ \E n \in 1..(Len(conversion.bytes) - conversion.position) :
       LET chunk == Subarray(conversion.bytes, conversion.position, conversion.position + n)
       IN conversion' =
            IF conversion.route = "node"
            THEN [ conversion EXCEPT !.chunks = Append(@, chunk), !.position = @ + n ]
            ELSE [ conversion EXCEPT !.queue = Append(@, chunk), !.position = @ + n ]
  /\ UNCHANGED << execution, other, textRun, metadataRun, validation >>

\* the Node stream's 'end' event: nodeStreamToBuffer resolves with
\* Buffer.concat(chunks), nodeToWebStream closes the Web stream
NodeEnd ==
  /\ conversion.route \in { "node", "nodeToWeb" }
  /\ conversion.state = "reading"
  /\ ~conversion.closed
  /\ conversion.position = Len(conversion.bytes)
  /\ conversion' =
       IF conversion.route = "node"
       THEN [ conversion EXCEPT !.closed = TRUE, !.state = "resolved",
                                !.result = BufferConcat(conversion.chunks) ]
       ELSE [ conversion EXCEPT !.closed = TRUE ]
  /\ UNCHANGED << execution, other, textRun, metadataRun, validation >>

\* webStreamToBuffer: one reader.read() of its loop; a chunk is pushed, and
\* at the end of the stream the call returns Buffer.concat(chunks)
WebStreamRead ==
  /\ conversion.route \in { "fromBuffer", "nodeToWeb" }
  /\ conversion.state = "reading"
  /\ IF conversion.queue # << >>
     THEN conversion' = [ conversion EXCEPT !.chunks = Append(@, Head(conversion.queue)),
                                            !.queue = Tail(@) ]
     ELSE /\ conversion.closed
          /\ conversion' = [ conversion EXCEPT !.state = "resolved",
                                               !.result = BufferConcat(conversion.chunks) ]
  /\ UNCHANGED << execution, other, textRun, metadataRun, validation >>

NextStream ==
  \/ FromBufferPull
  \/ NodeData
  \/ NodeEnd
  \/ WebStreamRead

SpecStream == InitStream /\ [][NextStream]_vars

(***************************************************************************)
(* ValidateDocumentUseCaseImpl.validate.  A buffer argument is given by    *)
(* its length and its first bytes (at most four), the only things validate *)
(* looks at.                                                               *)
(***************************************************************************)
\* source.length > 100 * 1024 * 1024
LargeFileLimit == 104857600

\* P, K, 0x03, 0x04
ZipSignature == << 80, 75, 3, 4 >>
HeadBytes == { 80, 75, 3, 4 }

\* the arguments of validate: null, a stream, or a buffer, short (its
\* length is that of its head) or of four bytes and more
ValidateSources ==
  { [ NoValidation EXCEPT !.kind = k ] : k \in { "null", "stream" } } \cup
  { [ NoValidation EXCEPT !.kind = "buffer", !.length = Len(h), !.head = h ] :
      h \in SeqsUpTo(HeadBytes, 3) } \cup
  { [ NoValidation EXCEPT !.kind = "buffer", !.length = n, !.head = h ] :
      h \in [ 1..4 -> HeadBytes ], n \in { 4, LargeFileLimit, LargeFileLimit + 1 } }

ValidationError(code, severity) == [ code |-> code, severity |-> severity ]

\* faulty variant of hasValidZipSignature: only P and K are looked at
hasValidZipSignaturePK(buffer) ==
  /\ Len(buffer.head) >= 2
  /\ buffer.head[1] = 80
  /\ buffer.head[2] = 75

\* hasValidZipSignature (validate-document.use-case.ts 65-75)
hasValidZipSignature(buffer) ==
  IF buffer.length < 4 THEN FALSE
  ELSE /\ buffer.head[1] = 80
       /\ buffer.head[2] = 75
       /\ buffer.head[3] = 3
       /\ buffer.head[4] = 4

\* the errors validate collects, in the order of its checks
ValidateErrors(src) ==
  (IF src.kind = "null"
   THEN << ValidationError("INVALID_SOURCE", "error") >> ELSE << >>)
  \o (IF src.kind = "buffer" /\ src.length = 0
      THEN << ValidationError("EMPTY_BUFFER", "error") >> ELSE << >>)
  \o (IF src.kind = "buffer" /\ src.length > LargeFileLimit
      THEN << ValidationError("LARGE_FILE", "warning") >> ELSE << >>)
  \o (IF src.kind = "buffer" /\ ~hasValidZipSignature(src)
      THEN << ValidationError("INVALID_ZIP_SIGNATURE", "error") >> ELSE << >>)

InitValidate ==
  /\ source = "buffer"
  /\ options = NoOptions
  /\ repository = "DocxRepository"
  /\ zip = UnreadZip
  /\ pc = "created"
  /\ pending = FALSE
  /\ out = << >>
  /\ raised = << >>
  /\ polled = FALSE
  /\ elementId = 0
  /\ order = 0
  /\ elements = << >>
  /\ tables = << >>
  /\ headerFiles = << >>
  /\ footerFiles = << >>
  /\ footnotes = << >>
  /\ mediaFiles = << >>
  /\ warnings = { }
  /\ chunks = 0
  /\ other = NotStarted
  /\ textRun = NoText
  /\ metadataRun = NoMetadataRun
  /\ conversion = NoConversion
  /\ validation \in ValidateSources

\* validate(source) (validate-document.use-case.ts 8-57)
Validate ==
  /\ validation.state = "idle"
  /\ validation' =
       [ validation EXCEPT
           !.state = "returned",
           !.errors = ValidateErrors(validation),
           !.isValid = (Len(SelectSeq(ValidateErrors(validation),
                                      LAMBDA e : e.severity = "error")) = 0) ]
  /\ UNCHANGED << execution, other, textRun, metadataRun, conversion >>

NextValidate == Validate

SpecValidate == InitValidate /\ [][NextValidate]_vars

(***************************************************************************)
(* Runs over a buffer with the content filters given one by one            *)
(***************************************************************************)
FilterNames ==
  { "includeMetadata", "includeImages", "includeTables", "includeHeaders", "includeFooters" }

\* one filter off, every filter off
FilterOptionSets ==
  { [ AllFilters EXCEPT ![f] = "false" ] : f \in FilterNames } \cup
  { [ f \in DOMAIN AllFilters |-> IF f \in FilterNames THEN "false" ELSE AllFilters[f] ] }

InitFilters ==
  /\ source = "buffer"
  /\ options \in FilterOptionSets
  /\ repository = "DocxRepository"
  /\ zip = UnreadZip
  /\ pc = "created"
  /\ pending = FALSE
  /\ out = << >>
  /\ raised = << >>
  /\ polled = FALSE
  /\ elementId = 0
  /\ order = 0
  /\ elements = << >>
  /\ tables = << >>
  /\ headerFiles = << >>
  /\ footerFiles = << >>
  /\ footnotes = << >>
  /\ mediaFiles = << >>
  /\ warnings = { }
  /\ chunks = 0
  /\ other = NotStarted
  /\ textRun = NoText
  /\ validation = NoValidation
  /\ metadataRun = NoMetadataRun
  /\ conversion = NoConversion

\* the consumer iterates the run to its end (parseDocxToArray)
NextFilters ==
  \/ ConsumerNext
  \/ Execute
  \/ Parse
  \/ ExtractMetadata
  \/ ExtractContent
  \/ ContentNext
  \/ ExtractTables
  \/ TablesNext
  \/ ExtractHeaders
  \/ HeadersNext
  \/ ExtractFooters
  \/ FootersNext
  \/ ExtractFootnotes
  \/ FootnotesNext
  \/ ExtractImages
  \/ ImagesNext

SpecFilters == InitFilters /\ [][NextFilters]_vars

(***************************************************************************)
(* Runs over a buffer that differ in the options parse resolves and never  *)
(* reads: imageFormat, preserveFormatting, chunkSize, concurrent           *)
(***************************************************************************)
ImageFormats == { Unset, "buffer", "base64", "stream" }

\* unset, one byte, the default
ChunkSizes == { 0, 1, DefaultChunkSize }

\* the options that differ from o in these four only
UnusedVariants(o) ==
  { [ o EXCEPT !.imageFormat = f, !.preserveFormatting = p, !.chunkSize = c, !.concurrent = k ] :
      f \in ImageFormats, p \in Flags, c \in ChunkSizes, k \in Flags }

\* the four given: formatting not preserved, base64 images, chunks of one
\* byte, concurrency on
UnusedGiven(o) ==
  [ o EXCEPT !.imageFormat = "base64", !.preserveFormatting = "false",
             !.chunkSize = 1, !.concurrent = "true" ]

\* the shared buffers, and each with a page footer part added
UnusedBuffers ==
  SharedBuffers \cup
  { [ b EXCEPT !.footers =
        Part("present", << [ text |-> Foo, hasPageNumber |-> FALSE, malformed |-> FALSE ] >>) ] :
      b \in SharedBuffers }

\* a caller of execute, and extractText with the options of its caller
InitUnused ==
  /\ source = "buffer"
  /\ options \in { NoOptions, UnusedGiven(NoOptions), AllFilters, UnusedGiven(AllFilters) } \cup
                  { [ ExtractTextOptions EXCEPT !.preserveFormatting = p ] : p \in Flags }
  /\ repository = "DocxRepository"
  /\ zip \in UnusedBuffers
  /\ pc = "created"
  /\ pending = FALSE
  /\ out = << >>
  /\ raised = << >>
  /\ polled = FALSE
  /\ elementId = 0
  /\ order = 0
  /\ elements = << >>
  /\ tables = << >>
  /\ headerFiles = << >>
  /\ footerFiles = << >>
  /\ footnotes = << >>
  /\ mediaFiles = << >>
  /\ warnings = { }
  /\ chunks = 0
  /\ other = NotStarted
  /\ textRun = NoText
  /\ validation = NoValidation
  /\ metadataRun = NoMetadataRun
  /\ conversion = NoConversion

SpecUnused == InitUnused /\ [][NextFilters]_vars

(***************************************************************************)
(* Runs over a content part with tables whose cells hold paragraphs of     *)
(* every kind, with and without the tables stage                           *)
(***************************************************************************)
CellParagraphs ==
  { Paragraph(NoStyle, "none", Foo), Paragraph(Heading2Style, "none", Foo),
    Paragraph(NoStyle, "none", Blank), Paragraph(NoStyle, "val=1", TwoWords) }

\* a cell of one paragraph, a cell of two
Cells ==
  { << p >> : p \in CellParagraphs } \cup
  { << Paragraph(NoStyle, "none", Foo), Paragraph(NoStyle, "val=1", TwoWords) >> }

\* a table of one cell, a table of one row of two cells
CellTables ==
  { << << c >> >> : c \in Cells } \cup
  { << << << Paragraph(NoStyle, "none", TwoWords) >>, << Paragraph(Heading2Style, "none", Foo) >> >> >> }

TableBlock(t) == [ kind |-> "tbl", par |-> NoParagraph, rows |-> t, malformed |-> FALSE ]

ParagraphBlock(p) == [ kind |-> "p", par |-> p, rows |-> << >>, malformed |-> FALSE ]

\* the table alone, after a paragraph, before a paragraph
CellBodies ==
  { << TableBlock(t) >> : t \in CellTables } \cup
  { << ParagraphBlock(Paragraph(NoStyle, "none", Foo)), TableBlock(t) >> : t \in CellTables } \cup
  { << TableBlock(t), ParagraphBlock(Paragraph(NoStyle, "none", Foo)) >> : t \in CellTables }

CellOptionSets ==
  { [ AllFilters EXCEPT !.includeTables = t, !.normalizeWhitespace = w ] :
      t \in { "true", "false" }, w \in { Unset, "false" } }

InitCells ==
  /\ source = "buffer"
  /\ options \in CellOptionSets
  /\ repository = "DocxRepository"
  /\ zip \in { [ UnreadZip EXCEPT !.document = Part("present", body) ] : body \in CellBodies }
  /\ pc = "created"
  /\ pending = FALSE
  /\ out = << >>
  /\ raised = << >>
  /\ polled = FALSE
  /\ elementId = 0
  /\ order = 0
  /\ elements = << >>
  /\ tables = << >>
  /\ headerFiles = << >>
  /\ footerFiles = << >>
  /\ footnotes = << >>
  /\ mediaFiles = << >>
  /\ warnings = { }
  /\ chunks = 0
  /\ other = NotStarted
  /\ textRun = NoText
  /\ validation = NoValidation
  /\ metadataRun = NoMetadataRun
  /\ conversion = NoConversion

SpecCells == InitCells /\ [][NextFilters]_vars

(***************************************************************************)
(* Properties                                                              *)
(***************************************************************************)
\* the stages in the order of the pipeline, tables being the second half
\* of the content stage
StageRank(stage) ==
  CASE stage = "metadata" -> 1
    [] stage = "content" -> 2
    [] stage = "tables" -> 3
    [] stage = "headers" -> 4
    [] stage = "footers" -> 5
    [] stage = "footnotes" -> 6
    [] OTHER -> 7

\* C1: the emitted sequence is made of per-stage blocks in the order
\* metadata, content (paragraphs/headers, then tables), page headers,
\* footers, footnotes, images: no element of a later stage precedes an
\* element of an earlier stage
C1_StagesInFixedOrder ==
  \A i, j \in DOMAIN out :
    i < j => StageRank(out[i].stage) <= StageRank(out[j].stage)

\* a finished run that emitted metadata, then a footnote, then an image
C1_Witness ==
  /\ pc = "done"
  /\ Len(out) = 3
  /\ out[1].stage = "metadata"
  /\ out[2].stage = "footnotes"
  /\ out[3].stage = "images"

\* C2: within one run the ids of the emitted elements are pairwise distinct
\* and strictly increasing in emission order
C2_IdsStrictlyIncrease ==
  \A i, j \in DOMAIN out :
    i < j => /\ out[i].id.prefix = out[j].id.prefix
             /\ out[i].id.number < out[j].id.number

\* a finished run that dropped a whitespace-only paragraph and emitted
\* two elements
C2_Witness ==
  /\ pc = "done"
  /\ Len(out) = 2
  /\ \E b \in DOMAIN zip.document.data :
       /\ zip.document.data[b].kind = "p"
       /\ ~zip.document.data[b].malformed
       /\ zip.document.data[b].par.text = Blank

\* C3 (as claimed): every image has 1000 <= order < 2000, every element of
\* type header 2000 <= order < 3000, every footer 3000 <= order < 4000,
\* every footnote-tagged element order >= 4000 and every content-stage
\* element 1 <= order < 1000
C3_StageBands ==
  \A i \in DOMAIN out :
    /\ out[i].type = "image" =>
         ImageOrderStart <= out[i].order /\ out[i].order < HeaderOrderStart
    /\ out[i].type = "header" =>
         HeaderOrderStart <= out[i].order /\ out[i].order < FooterOrderStart
    /\ out[i].type = "footer" =>
         FooterOrderStart <= out[i].order /\ out[i].order < FootnoteOrderStart
    /\ out[i].isFootnote => FootnoteOrderStart <= out[i].order
    /\ out[i].stage \in { "content", "tables" } =>
         ContentOrderStart <= out[i].order /\ out[i].order < ImageOrderStart

\* parse went past its metadata stage
PastMetadata ==
  /\ repository = "DocxRepository"
  /\ source = "buffer"
  /\ pc \notin { "created", "parse", "metadata", "closed" }

MetadataPositions == { i \in DOMAIN out : out[i].type = "metadata" }

\* C4: a run emits exactly one metadata element when includeMetadata is
\* true or left at its default and none when it is false; the metadata
\* element is the first of the sequence
C4_OneMetadataWhenRequested ==
  /\ MetadataPositions \subseteq { 1 }
  /\ options.includeMetadata = "false" => MetadataPositions = { }
  /\ PastMetadata /\ options.includeMetadata \in { Unset, "true" } =>
       MetadataPositions = { 1 }

\* a finished run with the flag left unset that emitted the metadata
\* element and then a content element
C4_Witness ==
  /\ pc = "done"
  /\ options.includeMetadata = Unset
  /\ Len(out) = 2
  /\ out[2].stage = "content"

\* C5 (as claimed): with metadata requested and docProps/core.xml missing or
\* unreadable, the metadata stage does not raise and the metadata element
\* has a zero content in both cases
C5_ZeroContentInBothCases ==
  opts.includeMetadata /\ zip.core.state \in { "absent", "corrupt" } =>
    /\ Len(out) >= 1
    /\ out[1].type = "metadata"
    /\ out[1].metadata = NoMetadata
    /\ (raised # << >> => zip.document.state # "unread")

\* C5 (amended): with metadata requested, the metadata stage never raises;
\* an unreadable docProps/core.xml gives a zero-content metadata element, a
\* missing one gives the placeholder title 'Unknown Document' and author
\* 'Unknown' with no subject and no dates
C5_FallbackByCase ==
  opts.includeMetadata /\ zip.core.state \in { "absent", "corrupt" } =>
    /\ Len(out) >= 1
    /\ out[1].type = "metadata"
    /\ zip.core.state = "corrupt" =>
         \A f \in DOMAIN out[1].metadata : out[1].metadata[f] = Undefined
    /\ zip.core.state = "absent" =>
         /\ out[1].metadata.title = "Unknown Document"
         /\ out[1].metadata.author = "Unknown"
         /\ \A f \in { "subject", "created", "modified" } : out[1].metadata[f] = Undefined
    /\ (raised # << >> => zip.document.state # "unread")

\* the metadata part is missing and the run goes on to the content stage
C5_Witness ==
  /\ zip.core.state = "absent"
  /\ zip.readable
  /\ pc = "paragraphs"
  /\ Len(out) = 1
  /\ raised = << >>

\* C6 (as claimed): when the container lacks word/document.xml the run
\* raises a fatal error and the consumer received no element before it
C6_NothingBeforeMissingDocument ==
  zip.document.state = "absent" => pc = "failed" /\ Len(raised) = 1 /\ out = << >>

\* the conditions under which the run must end with an error
FatalCondition ==
  \/ source = "null"
  \/ repository = "stub"
  \/ source = "stream"
  \/ ~zip.readable
  \/ zip.document.state \in { "absent", "corrupt" }
  \/ Malformed(zip.document.data, "p")

SecondaryStages == { "tables", "headers", "footers", "footnotes", "images" }

IsPrefix(s, t) == Len(s) <= Len(t) /\ \A i \in DOMAIN s : s[i] = t[i]

\* C7: a failure inside a secondary stage (tables, images, page headers,
\* footers, footnotes) is never raised: nothing is raised once a stage
\* logged a failure and an error is only raised on a fatal condition, the
\* elements emitted stay emitted, the run moves on to a later stage, every
\* later enabled stage reads its part, and the run ends normally
C7_SecondaryFailuresContained ==
  /\ [](warnings \subseteq SecondaryStages)
  /\ [](warnings # { } => raised = << >> /\ pc # "failed")
  /\ [](pc = "failed" => FatalCondition)
  /\ [](pc = "done" =>
          /\ opts.includeHeaders => zip.headers.state # "unread"
          /\ opts.includeFooters => zip.footers.state # "unread"
          /\ zip.footnotes.state # "unread"
          /\ opts.includeImages => zip.media.state # "unread")
  /\ [][IsPrefix(out, out')]_vars
  /\ [][warnings' # warnings =>
          /\ out' = out
          /\ raised' = raised
          /\ pc' \in { "headers", "footers", "footnotes", "images", "done" }
          /\ pc' # pc]_vars

\* the tables of a document with a paragraph failed; the paragraph was
\* emitted, the footnote and image stages read their parts, and the run
\* ended normally
C7_Witness ==
  /\ pc = "done"
  /\ "tables" \in warnings
  /\ \E i \in DOMAIN out : out[i].stage = "content"
  /\ zip.footnotes.state = "present"
  /\ opts.includeImages
  /\ zip.media.state = "present"
  /\ raised = << >>

\* C8: on a fatal condition the consumer of execute sees exactly one raised
\* error, a DocxParseError (the repository's DocxParseError as it is, any
\* other error wrapped), nothing is yielded or raised after it, a run with a
\* fatal condition never ends normally, and a null source raises before the
\* repository is invoked
C8_OneDocxParseError ==
  /\ [](Len(raised) <= 1)
  /\ [](pc = "failed" <=> Len(raised) = 1)
  /\ [](\A i \in DOMAIN raised : raised[i].class = "DocxParseError")
  /\ [](pc = "done" => ~FatalCondition)
  /\ [](source = "null" =>
          /\ pc \in { "created", "failed", "closed" }
          /\ zip = UnreadZip
          /\ out = << >>
          /\ raised \in { << >>, << DocxParseError(<< "Source cannot be null or undefined" >>) >> })
  /\ [](repository = "stub" /\ source # "null" =>
          raised \in { << >>,
                       << DocxParseError(<< "Test error" >>) >>,
                       << DocxParseError(<< "Failed to parse document", "Generic error" >>) >> })
  /\ [](repository = "DocxRepository" /\ raised # << >> /\ source # "null" =>
          Head(raised[1].message) = "Failed to parse DOCX document")
  /\ [][pc = "failed" => pc' = "failed" /\ out' = out /\ raised' = raised]_vars

\* the repository threw its own DocxParseError and the consumer asked again
C8_Witness ==
  /\ repository = "stub"
  /\ pc = "failed"
  /\ polled
  /\ raised = << DocxParseError(<< "Test error" >>) >>

\* C9 (as claimed): with includeHeaders false a run emits no element of
\* type 'header', whatever styles the body paragraphs carry
C9_NoHeaderTypeWhenDisabled ==
  ~opts.includeHeaders => \A i \in DOMAIN out : out[i].type # "header"

FilenamesOf(fs) == [ i \in DOMAIN fs |-> [ name |-> fs[i].name, ext |-> fs[i].ext ] ]

\* the file names of the image elements, in emission order
ImageFilenames ==
  LET imgs == SelectSeq(out, LAMBDA e : e.type = "image")
  IN [ i \in DOMAIN imgs |-> imgs[i].filename ]

WithinLimit(f) == f.length <= opts.maxImageSize

KnownImageExtensions ==
  { << "p", "n", "g" >>, << "j", "p", "g" >>, << "j", "p", "e", "g" >>,
    << "g", "i", "f" >>, << "s", "v", "g" >>, << "w", "m", "f" >>, << "e", "m", "f" >> }

KnownFormat(f) == LowerCase(f.ext) \in KnownImageExtensions

ImagesDone == pc = "done" /\ opts.includeImages /\ zip.media.state = "present"

EmittedMedia ==
  { i \in DOMAIN zip.media.data :
      \E k \in DOMAIN ImageFilenames : ImageFilenames[k].name = zip.media.data[i].name }

\* C11: an image whose byte length is exactly maxImageSize is emitted and
\* one a byte longer is not; an oversized image is skipped without an error
\* raised, without an error attached to any element and without keeping the
\* images after it from being emitted
C11_LimitIsInclusive ==
  /\ \A k \in DOMAIN out :
       /\ out[k].error = Undefined
       /\ out[k].type = "image" => out[k].length <= opts.maxImageSize
  /\ zip.media.state = "present" /\ pc \in { "imageLoop", "done" } =>
       raised = << >> /\ "images" \notin warnings
  /\ ImagesDone =>
       \A i \in DOMAIN zip.media.data :
         LET f == zip.media.data[i]
         IN /\ f.length = opts.maxImageSize /\ KnownFormat(f) => i \in EmittedMedia
            /\ f.length = opts.maxImageSize + 1 =>
                 /\ i \notin EmittedMedia
                 /\ \A j \in DOMAIN zip.media.data :
                      j > i /\ WithinLimit(zip.media.data[j]) /\ KnownFormat(zip.media.data[j])
                        => j \in EmittedMedia

\* a finished run over an image one byte over the limit followed by an
\* image exactly at the limit: the second one alone was emitted
C11_Witness ==
  /\ ImagesDone
  /\ Len(zip.media.data) = 2
  /\ zip.media.data[1].length = opts.maxImageSize + 1
  /\ zip.media.data[2].length = opts.maxImageSize
  /\ EmittedMedia = { 2 }
  /\ raised = << >>

\* C12 (as claimed): every emitted element of type 'header' has a level in
\* 1..6, whatever style name the paragraph carries
C12_HeaderLevelInRange ==
  \A k \in DOMAIN out : out[k].type = "header" => out[k].level \in 1..6

\* the body of the document is one paragraph block and the content loop
\* emitted what it had to emit
BodyParagraphDone ==
  /\ zip.document.state = "present"
  /\ Len(zip.document.data) = 1
  /\ zip.document.data[1].kind = "p"
  /\ pc \in { "tables", "tableLoop", "headers", "headerLoop", "footers", "footerLoop",
              "footnotes", "footnoteLoop", "images", "imageLoop", "done" }

BodyParagraph == zip.document.data[1].par

ContentOut == SelectSeq(out, LAMBDA e : e.stage = "content")

\* the level the claim gives to a style name: the digits after "heading",
\* 1 when there are none
ClaimedLevels ==
  << << HeadingStyle, 1 >>, << Heading2Style, 2 >>,
     << HeadingStyle \o << "0" >>, 0 >>, << HeadingStyle \o << "7" >>, 7 >>,
     << << "h", "3" >> \o Heading2Style, 2 >> >>

\* the level the code gives: the number of the first heading<digits> or
\* h<digits> of the style name, 1 when that number is 0 or there is none
FirstMatchLevels ==
  << << HeadingStyle, 1 >>, << Heading2Style, 2 >>,
     << HeadingStyle \o << "0" >>, 1 >>, << HeadingStyle \o << "7" >>, 7 >>,
     << << "h", "3" >> \o Heading2Style, 3 >> >>

UnstyledNames == { NoStyle, << "N", "o", "r", "m", "a", "l" >> }

HeaderWithLevel(levels) ==
  BodyParagraphDone /\ BodyParagraph.text # Blank =>
    /\ \A k \in DOMAIN levels :
         BodyParagraph.style = levels[k][1] =>
           /\ Len(ContentOut) = 1
           /\ ContentOut[1].type = "header"
           /\ ContentOut[1].level = levels[k][2]
    /\ BodyParagraph.style \in UnstyledNames =>
         /\ Len(ContentOut) = 1
         /\ ContentOut[1].type = "paragraph"

\* C13 (as claimed): a non-empty body paragraph whose style name contains
\* "heading" followed by digits n yields exactly one element of type
\* 'header' with level n, level 1 when no digits follow; a paragraph with no
\* heading, title or subtitle style is never a header, bold or not
C13_LevelIsTheSuffix == HeaderWithLevel(ClaimedLevels)

\* C13 (amended): such a paragraph yields exactly one element of type
\* 'header' whose level is the number of the first "heading<digits>" or
\* "h<digits>" found in the lower-cased style name, and 1 when that number
\* is 0 or no digits follow; a paragraph with no heading, title or subtitle
\* style is never a header, bold or not
C13_LevelIsTheFirstMatch == HeaderWithLevel(FirstMatchLevels)

\* a finished run over a bold paragraph styled Heading2: one header of
\* level 2
C13_Witness ==
  /\ BodyParagraphDone
  /\ pc = "done"
  /\ BodyParagraph.style = Heading2Style
  /\ BodyParagraph.bold
  /\ Len(ContentOut) = 1
  /\ ContentOut[1].level = 2

\* the paragraph carries <w:strike w:val="1"/>
HasStrikeIndicator(p) == p.strike = "val=1"

CheckedParagraph(e) == e.type = "paragraph" /\ e.content = Foo /\ e.checkbox

WhitespaceOnly(t) == \A i \in DOMAIN t : IsSpace(t[i])

\* the footnote stage went through word/footnotes.xml without a failure
FootnotesDone ==
  /\ zip.footnotes.state = "present"
  /\ "footnotes" \notin warnings
  /\ pc \in { "images", "imageLoop", "done" }

FootnoteOut == SelectSeq(out, LAMBDA e : e.isFootnote)

\* C15: every footnote block with a non-empty id and non-empty text, the
\* reserved id "0" included, yields exactly one element of type 'paragraph'
\* with isFootnote = true and footnoteId the block's id, in the order of the
\* blocks; blocks with whitespace-only text yield nothing
C15_FootnotesInOrder ==
  /\ \A k \in DOMAIN out : out[k].isFootnote <=> out[k].stage = "footnotes"
  /\ FootnotesDone =>
       LET kept == SelectSeq(zip.footnotes.data,
                             LAMBDA n : n.id # "" /\ ~WhitespaceOnly(n.text))
       IN /\ Len(FootnoteOut) = Len(kept)
          /\ \A i \in DOMAIN kept :
               /\ FootnoteOut[i].type = "paragraph"
               /\ FootnoteOut[i].footnoteId = kept[i].id
               /\ FootnoteOut[i].content = kept[i].text

\* a finished run over a footnote with id "0" and text, followed by a
\* footnote with whitespace-only text: one footnote element, id "0"
C15_Witness ==
  /\ FootnotesDone
  /\ pc = "done"
  /\ Len(zip.footnotes.data) = 2
  /\ zip.footnotes.data[1].id = "0"
  /\ WhitespaceOnly(zip.footnotes.data[2].text)
  /\ Len(FootnoteOut) = 1
  /\ FootnoteOut[1].footnoteId = "0"

\* C16 (as claimed): with normalizeWhitespace true (or unset) the paragraph
\* text has its whitespace runs collapsed to one space and its ends
\* trimmed, and with normalizeWhitespace false the text is emitted raw, so a
\* paragraph holding a run of two whitespace characters keeps it
C16_WhitespaceByOption ==
  BodyParagraphDone /\ BodyParagraph.text = TwoWords =>
    /\ Len(ContentOut) = 1
    /\ options.normalizeWhitespace \in { Unset, "true" } =>
         ContentOut[1].content = << "a", " ", "b" >>
    /\ options.normalizeWhitespace = "false" =>
         ContentOut[1].content = TwoWords

\* C17 (as claimed): position.order is strictly increasing along the
\* emitted sequence, so sorting the elements of a run by position.order
\* gives back their emission order
C17_OrderIsSortKey ==
  \A i, j \in DOMAIN out : i < j => out[i].order < out[j].order

Extracting ==
  pc \in { "metadata", "content", "paragraphs", "tables", "tableLoop", "headers",
           "headerLoop", "footers", "footerLoop", "footnotes", "footnoteLoop",
           "images", "imageLoop", "done" }

C19_RunsAreIndependent ==
  /\ [](\A k \in DOMAIN out \cap DOMAIN other.out : out[k] = other.out[k])
  /\ [](pc = "done" /\ other.pc = "done" => out = other.out)
  /\ [](pc = "failed" /\ source = "buffer" /\ other.pc = "failed" => out = other.out)
  /\ [](elementId = Len(out) /\ other.elementId = Len(other.out))
  /\ [][other' # other => elementId' = elementId /\ out' = out]_vars
  /\ [][elementId' # elementId => other' = other]_vars

\* both runs are under way, each has emitted two elements of the five the
\* buffer gives, and neither has ended
C19_Witness ==
  /\ Len(out) = 2
  /\ Len(other.out) = 2
  /\ out = other.out
  /\ other.pc = "running"
  /\ pc \notin { "done", "failed", "closed" }
  /\ Len(ParseYields(zip, opts)) >= 5

\* the text the claim gives to an element of the base sequence
RECURSIVE Lines(_, _)
Lines(ls, sep) ==
  IF ls = << >> THEN << >>
  ELSE Head(ls) \o (IF Tail(ls) = << >> THEN << >> ELSE << sep >>) \o Lines(Tail(ls), sep)

TextElements(es) == SelectSeq(es, LAMBDA e : e.type \in { "paragraph", "header", "table" })

TextOfBase(es) ==
  LET ts == TextElements(es)
  IN Lines([ i \in DOMAIN ts |->
               IF ts[i].type = "table"
               THEN Lines([ r \in DOMAIN ts[i].rows |-> Lines(ts[i].rows[r], "\t") ], "\n")
               ELSE ts[i].content ], "\n")

\* the base sequence for the same source: metadata and images disabled,
\* tables enabled, the other options at their defaults
BaseForText ==
  ParseYields(zip, ResolveOptions([ NoOptions EXCEPT !.includeMetadata = "false",
                                                     !.includeImages = "false",
                                                     !.includeTables = "true" ]))

\* C20: extractText returns exactly the text of the elements of type
\* paragraph, header and table that the base sequence emits for the same
\* source with metadata and images disabled and tables enabled, in emission
\* order: element texts joined by newline, a table as its rows joined by
\* newline with cells joined by tab; no other element contributes
C20_TextOfTheBaseSequence ==
  textRun.state = "returned" =>
    /\ textRun.value = TextOfBase(BaseForText)
    /\ textRun.taken = Len(BaseForText)

\* extractText returned over a document with a paragraph and a table: the
\* paragraphs' text, then the table's
C20_Witness ==
  /\ textRun.state = "returned"
  /\ Len(zip.document.data) = 1
  /\ zip.document.data[1].kind = "tbl"
  /\ textRun.value = Foo \o << "\n" >> \o Foo

\* C21: for a Buffer source extractMetadata never throws; it returns the
\* content of the first metadata element and asks for no element after it,
\* so that the content part is never read; it returns the empty structure
\* when the container is unreadable and when the sequence ends without a
\* metadata element
C21_MetadataOfAnyBuffer ==
  LET firstMetadata == { i \in DOMAIN out :
                           /\ out[i].type = "metadata"
                           /\ \A j \in 1..(i - 1) : out[j].type # "metadata" }
  IN /\ metadataRun.state # "idle" /\ source = "buffer" /\ repository = "DocxRepository" =>
          /\ metadataRun.state # "thrown"
          /\ pc # "failed"
          /\ zip.document.state = "unread"
          /\ Len(out) <= 1
     /\ metadataRun.state = "returned" =>
          /\ \A i \in firstMetadata :
               /\ metadataRun.value = out[i].metadata
               /\ Len(out) = i
               /\ pc = "closed"
          /\ firstMetadata = { } => metadataRun.value = NoMetadata /\ pc = "done"
          /\ source = "buffer" /\ repository = "DocxRepository" =>
               /\ firstMetadata = { 1 }
               /\ ~zip.readable => metadataRun.value = NoMetadata

\* the call returned the empty structure for a buffer that is no readable
\* container
C21_Witness ==
  /\ source = "buffer"
  /\ repository = "DocxRepository"
  /\ ~zip.readable
  /\ metadataRun.state = "returned"
  /\ metadataRun.value = NoMetadata
  /\ Len(out) = 1

\* C22: toBuffer gives back the bytes of the buffer on every route and
\* under every chunking: the chunks collected so far and those still queued
\* are, in arrival order, the bytes handed out so far, and the buffer
\* returned equals the original
C22_BytesPreserved ==
  /\ conversion.state # "idle" =>
       BufferConcat(conversion.chunks) \o BufferConcat(conversion.queue)
         = SubSeq(conversion.bytes, 1, conversion.position)
  /\ conversion.state = "resolved" => conversion.result = conversion.bytes

\* a buffer longer than one chunk came back through fromBuffer, and one
\* came back in three chunks through nodeToWebStream
C22_Witness ==
  /\ conversion.state = "resolved"
  /\ Len(conversion.bytes) = MaxBytes
  /\ conversion.result = conversion.bytes
  /\ Len(conversion.chunks) >= 2
  /\ conversion.route # "node"

ErrorCodes == { validation.errors[i].code : i \in DOMAIN validation.errors }

\* C23: validate returns isValid = true exactly when no entry of its errors
\* list has severity 'error'; a null source gives exactly the entry
\* INVALID_SOURCE and isValid false; a buffer shorter than 4 bytes or not
\* starting with PK\x03\x04 gives INVALID_ZIP_SIGNATURE and isValid false;
\* LARGE_FILE (a buffer longer than 100 MiB) is a warning, and a buffer whose
\* only entry it is is valid
C23_ValidExactlyWithoutErrors ==
  validation.state = "returned" =>
    /\ validation.isValid <=>
         \A i \in DOMAIN validation.errors : validation.errors[i].severity # "error"
    /\ validation.kind = "null" =>
         /\ Len(validation.errors) = 1
         /\ validation.errors[1].code = "INVALID_SOURCE"
         /\ ~validation.isValid
    /\ validation.kind = "buffer" /\ (validation.length < 4 \/ validation.head # ZipSignature) =>
         /\ "INVALID_ZIP_SIGNATURE" \in ErrorCodes
         /\ ~validation.isValid
    /\ "LARGE_FILE" \in ErrorCodes <=>
         validation.kind = "buffer" /\ validation.length > LargeFileLimit
    /\ \A i \in DOMAIN validation.errors :
         validation.errors[i].code = "LARGE_FILE" => validation.errors[i].severity = "warning"
    /\ ErrorCodes = { "LARGE_FILE" } => validation.isValid

\* a buffer of more than 100 MiB with the ZIP signature: LARGE_FILE is the
\* only entry and the result is valid
C23_Witness ==
  /\ validation.state = "returned"
  /\ validation.length > LargeFileLimit
  /\ ErrorCodes = { "LARGE_FILE" }
  /\ validation.isValid

\* C24 (as claimed): a secondary stage that failed (it logged a warning)
\* contributed no element to the run, wherever in its work it failed
C24_FailedStageContributesNothing ==
  \A i \in DOMAIN out : out[i].stage \notin warnings

\* the part of the container a stage reads
PartRead(stage) ==
  CASE stage = "metadata" -> "core"
    [] stage = "headers" -> "headers"
    [] stage = "footers" -> "footers"
    [] OTHER -> "media"

\* whether the options ask for the stage that yielded an element
Requested(stage, o) ==
  CASE stage = "metadata" -> o.includeMetadata
    [] stage = "tables" -> o.includeTables
    [] stage = "headers" -> o.includeHeaders
    [] stage = "footers" -> o.includeFooters
    [] stage = "images" -> o.includeImages
    [] OTHER -> TRUE

\* what a part this run left unread may hold
PartContents(name) ==
  CASE name = "core" ->
         { Part("absent", NoCoreXml), Part("corrupt", NoCoreXml) }
           \cup { Part("present", x) : x \in CoreXmls }
    [] name = "media" ->
         { Part("corrupt", << >>),
           Part("present", << [ name |-> 1, ext |-> Png, length |-> SmallImageLimit ] >>) }
    [] OTHER ->
         { Part("corrupt", << >>),
           Part("present", << [ text |-> Foo, hasPageNumber |-> FALSE, malformed |-> FALSE ] >>) }

\* the containers this run may have been given: the parts it read as it
\* read them, the parts it left unread holding anything
Containers ==
  { z \in [ readable : { zip.readable },
            core : IF zip.core.state = "unread" THEN PartContents("core") ELSE { zip.core },
            document : { zip.document },
            headers : IF zip.headers.state = "unread" THEN PartContents("headers") ELSE { zip.headers },
            footers : IF zip.footers.state = "unread" THEN PartContents("footers") ELSE { zip.footers },
            footnotes : { zip.footnotes },
            media : IF zip.media.state = "unread" THEN PartContents("media") ELSE { zip.media } ] :
      TRUE }

WithoutIds(es) == [ i \in DOMAIN es |-> [ es[i] EXCEPT !.id = ElementIdOf(Unnumbered) ] ]

\* C25: a stage whose filter is false does nothing: it reads no part of the
\* container, scans no markup, emits no element and consumes no id (the
\* ids are 1, 2, ... along the emitted elements), and a finished run has
\* emitted, ids apart, what the run with every filter on emits over the
\* same container less the elements of the disabled stages
C25_DisabledStageIsNoOp ==
  /\ \A stage \in { "metadata", "headers", "footers", "images" } :
       ~Requested(stage, opts) =>
          /\ zip[PartRead(stage)].state = "unread"
          /\ \A i \in DOMAIN out : out[i].stage # stage
  /\ ~opts.includeTables =>
       /\ pc \notin { "tables", "tableLoop" }
       /\ tables = << >>
       /\ \A i \in DOMAIN out : out[i].stage # "tables"
  /\ ~opts.includeHeaders => headerFiles = << >>
  /\ ~opts.includeFooters => footerFiles = << >>
  /\ ~opts.includeImages => mediaFiles = << >>
  /\ \A i \in DOMAIN out : out[i].id.number = i
  /\ Len(out) = elementId
  /\ pc = "done" =>
       \A z \in Containers :
         WithoutIds(out) =
           SelectSeq(ParseYields(z, ResolveOptions(AllFilters)),
                     LAMBDA e : Requested(e.stage, opts))

\* a finished run with only the page headers disabled that emitted the
\* metadata, a content element and an image
C25_Witness ==
  /\ pc = "done"
  /\ options = [ AllFilters EXCEPT !.includeHeaders = "false" ]
  /\ zip.headers.state = "unread"
  /\ Len(out) = 3
  /\ out[2].stage = "content"
  /\ out[3].stage = "images"

\* the elements the consumer has asked for and not received yet
Demand == IF pending THEN 1 ELSE 0

\* the parts and blocks of fs that give an element
Emitted(fs, gives(_)) == SelectSeq(fs, gives)

\* C26 (as claimed): nothing is read or analyzed ahead of demand: of the
\* paragraphs, tables, footnotes, page header and footer parts and media
\* files that give an element, the producer holds no more than the one the
\* consumer is waiting for
C26_NothingAheadOfDemand ==
  /\ Len(elements) <= Demand
  /\ Len(tables) <= Demand
  /\ Len(footnotes) <= Demand
  /\ Len(Emitted(headerFiles, LAMBDA f : ~f.malformed /\ extractHeaderFromXml(f).found)) <= Demand
  /\ Len(Emitted(footerFiles, LAMBDA f : ~f.malformed /\ extractFooterFromXml(f).found)) <= Demand
  /\ Len(Emitted(mediaFiles, LAMBDA f : ~TooLarge(f, opts) /\ getImageFormat(f.ext) # "null")) <= Demand

\* C27 (as claimed): a non-empty body paragraph styled Subtitle yields a
\* header of level 2, one styled Title a header of level 1
C27_SubtitleIsLevelTwo ==
  BodyParagraphDone /\ BodyParagraph.text # Blank =>
    /\ BodyParagraph.style = SubtitleStyle =>
         /\ Len(ContentOut) = 1
         /\ ContentOut[1].type = "header"
         /\ ContentOut[1].level = 2
    /\ BodyParagraph.style = TitleStyle =>
         /\ Len(ContentOut) = 1
         /\ ContentOut[1].type = "header"
         /\ ContentOut[1].level = 1

\* C28 (as claimed): a non-empty body paragraph whose style is h<digit>
\* without the word "heading" (h2, H3) yields a header whose level is the
\* digit
C28_ShortStyleIsHeader ==
  BodyParagraphDone /\ BodyParagraph.text # Blank =>
    \A st \in { << << "h", "2" >>, 2 >>, << << "H", "3" >>, 3 >> } :
      BodyParagraph.style = st[1] =>
        /\ Len(ContentOut) = 1
        /\ ContentOut[1].type = "header"
        /\ ContentOut[1].level = st[2]

\* the ids a call numbers its elements with: 1, 2, ... along the sequence
WithIds(es) == [ i \in DOMAIN es |-> [ es[i] EXCEPT !.id = ElementIdOf(i) ] ]

CellParagraphsOf(blocks) ==
  SelectSeq(Flatten([ b \in 1..Len(blocks) |->
                        IF blocks[b].kind = "tbl" THEN TableParagraphs(blocks[b].rows)
                        ELSE << >> ]),
            LAMBDA p : Trim(extractTextFromXml(p.text)) # << >>)

\* the non-empty <w:p> blocks outside the tables
TopLevelParagraphsOf(blocks) ==
  SelectSeq(blocks, LAMBDA b : b.kind = "p" /\ Trim(extractTextFromXml(b.par.text)) # << >>)

\* the text of a paragraph as an element carries it
EmittedText(p) == ContentText(Trim(extractTextFromXml(p.text)), opts)

\* t occurs in s
Occurs(s, t) == \E i \in 1..(Len(s) + 1) : OccursAt(s, t, i)

\* the elements of the content stage, the table elements
ContentIndexes == { i \in DOMAIN out : out[i].stage = "content" }
TableIndexes == { i \in DOMAIN out : out[i].type = "table" }

\* C30 (as claimed): in a finished run every non-empty paragraph inside a
\* table cell has been emitted as an element of type 'paragraph'
C30_CellParagraphIsAParagraph ==
  pc = "done" =>
    \A k \in DOMAIN CellParagraphsOf(zip.document.data) :
      \E i \in ContentIndexes :
        /\ out[i].type = "paragraph"
        /\ out[i].content = EmittedText(CellParagraphsOf(zip.document.data)[k])

\* C30 (amended): the paragraph scan covers every paragraph block of the
\* content part regardless of nesting: in a finished run every non-empty
\* paragraph inside a table cell has been emitted as an element of the
\* content stage of its own, of type 'header' when its style marks a
\* heading and of type 'paragraph' otherwise, so the content stage has
\* emitted one element for each non-empty paragraph inside and outside the
\* tables; when includeTables is true the text occurs a second time in a
\* cell of a table element that comes after every element of the content
\* stage, and when it is false no table element is emitted and the cell
\* text is still emitted by the content stage
C30_CellParagraphsAreScanned ==
  pc = "done" =>
    LET blocks == zip.document.data
        cellPs == CellParagraphsOf(blocks)
    IN /\ Cardinality(ContentIndexes) = Len(cellPs) + Len(TopLevelParagraphsOf(blocks))
       /\ \A k \in DOMAIN cellPs :
            /\ \E i \in ContentIndexes :
                 /\ out[i].type = IF analyzeStyleForHeader(cellPs[k].style).isHeader
                                  THEN "header" ELSE "paragraph"
                 /\ out[i].content = EmittedText(cellPs[k])
            /\ opts.includeTables =>
                 \E j \in TableIndexes :
                   /\ \A i \in ContentIndexes : i < j
                   /\ \E r \in DOMAIN out[j].rows : \E c \in DOMAIN out[j].rows[r] :
                        Occurs(out[j].rows[r][c], EmittedText(cellPs[k]))
       /\ ~opts.includeTables => TableIndexes = { }

\* a finished run with includeTables false over a table whose one cell
\* holds two paragraphs: both were emitted as paragraph elements, no table
C30_Witness ==
  /\ pc = "done"
  /\ ~opts.includeTables
  /\ zip.document.data =
       << TableBlock(<< << << Paragraph(NoStyle, "none", Foo),
                             Paragraph(NoStyle, "val=1", TwoWords) >> >> >>) >>
  /\ Cardinality(ContentIndexes) = 2
  /\ \A i \in ContentIndexes : out[i].type = "paragraph"

====
